---- MODULE Spec2Model ----
(***************************************************************************)
(* Model of agent-things.                                                  *)
(*                                                                         *)
(* Spec: the Firefox browser tools, i.e. the connection layer (connect,    *)
(* connectOrExit, activePage, withBrowser) and the command-line tools      *)
(* built on it (firefox-start, firefox-content, firefox-nav and the        *)
(* withBrowser tools firefox-screenshot, firefox-eval, firefox-cookies).   *)
(* One behaviour of Spec is one invocation of one tool; times are in       *)
(* milliseconds since the start of the invocation.                         *)
(*                                                                         *)
(* SpecProfile: the profile provisioner (syncProfile, disableSyncPrefs).   *)
(* SpecLookup: named profiles (findProfileByName, listProfileNames).       *)
(* SpecNotify: the notify-on-idle extension of pi.                         *)
(* SpecNotifyFair: the same, the clock and due timers being fair.          *)
(* SpecSandbox: the script run-sandboxed.sh.                               *)
(* SpecPencil: the pencil CLI and its MCPClient.                           *)
(***************************************************************************)
EXTENDS Integers, Sequences, FiniteSets, TLC

VARIABLES
    tool,        \* which script runs
    argv,        \* process.argv.slice(2)
    pc,          \* position of the script
    now,         \* ms since the invocation began
    exitCode,    \* Running until the process ends, then 0 or 1
    out,         \* messages written to stdout/stderr
    listener,    \* who listens at ws://127.0.0.1:9222: "none", "existing", "spawned"
    listenedAtStart, \* a browser was listening when the invocation began
    extProc,     \* the browser that ran before the invocation: "none", "running", "terminated"
    pages,       \* browser.pages() of the running browser: context ids in enumeration order
    tree,        \* context ids of browsingContext.getTree's top-level contexts
    hs,          \* fate of the handshake of the connect() in progress
    cstart,      \* time the connect() in progress, or the one that returned the session, was called
    cres,        \* the last connect(): "idle" (none yet), "pending", or how it settled
    abandoned,   \* handshakes still in progress whose connect() has timed out: [to, due]
    strays,      \* browsers with a session that an abandoned handshake opened
    sess,        \* per browser, the puppeteer session this invocation holds to it
    browser,     \* the script's `browser` variable: the browser its session is to
    page,        \* the script's `page` variable
    opStarted,   \* a page operation (goto, evaluate, screenshot, cookies) was started
    thrown,      \* an exception is propagating through a finally block
    ownTab,      \* the tab opened with browser.newPage() is open
    firefoxBin,  \* findFirefox() finds a binary
    proc,        \* the browser process this invocation spawned
    nSpawned,    \* number of spawn() calls made
    firefoxProc, \* firefox-content's `firefoxProc` variable is set
    killSent,    \* process.kill(-pid, "SIGTERM") was called
    closeCalled, \* browser.close() was called, on which browser
    i,           \* firefox-start's loop counter
    connected,   \* firefox-start's `connected` flag
    nAttempts,   \* connect() calls made by firefox-start's wait loop
    spawnedAt,   \* time of the spawn() call
    spawnOutcome,\* the promise of spawnHeadlessFirefox: "idle", "pending", or how it settled
    spawnEvents, \* the events its handlers have received, in order
    spawnTimer,  \* its 15 s timer is armed
    src,         \* the user's default profile (what findDefaultProfile() finds)
    cache,       \* the profile directory under CACHE_DIR
    cache0,      \* the profile directory before the last syncProfile
    cacheDir,    \* whether the profile directory exists on disk
    synced,      \* what the last syncProfile returned as `synced`
    fsPc,        \* position of the profile specification
    registry,    \* the Profile Groups directory: whether it exists, and its files
    onDisk,    \* the profile paths that exist on disk
    wanted,      \* the profile name asked for
    lkPc,        \* position of the named-profile launch
    lkResult,    \* what findProfileByName returned
    lkAvailable, \* the names reported with ProfileNotFound
    lkLaunched,  \* a browser process was launched for the named profile
    pendingCount,  \* notify-on-idle: agent runs ended since the last notification
    debounceTimer, \* notify-on-idle: the timer handle it holds, or NoTimer
    hasFocus,      \* notify-on-idle: the terminal is taken to be focused
    focusReportingEnabled, \* notify-on-idle: focus reporting was switched on
    timers,        \* the armed timers of the event loop, each named by its due time
    clock,         \* ms since the extension was loaded
    stdinHandlers, \* number of times onStdinData is registered on stdin
    isTTY,         \* process.stdin.isTTY && process.stdout.isTTY
    isRaw,         \* process.stdin.isRaw
    os,            \* platform()
    written,       \* what the extension wrote to stdout, in order
    executed,      \* the commands passed to pi.exec, in order
    inflight,      \* number of pi.exec calls not yet completed
    lastFire,      \* hasFocus and count at the last run of the timer callback
    nPc,           \* "idle" when the extension is not loaded, else "loaded"
    lastEnd,       \* history: the time of the last agent_end
    burst,         \* history: agent_end events, each less than 2 s after the one before,
                   \*          since the last agent_start
    unreported,    \* history: agent_end events since the last agent_start or run of
                   \*          the timer callback
    attempts,      \* history: runs of the timer callback since the last agent_end
    sinceStart,    \* history: agent_end events since the last agent_start
    discarded,     \* history: pendingCount when the last agent_start came
    focusAtEnd,    \* history: hasFocus at the last agent_end
    lastFocusEvent, \* history: the last focus event received on stdin, "none" before
    sbArgs,        \* run-sandboxed.sh: "$@"; a file name is its parts between the dots
    sbInputExists, \* run-sandboxed.sh: the input file exists
    sbPc,          \* run-sandboxed.sh: position of the script
    sbExit,        \* run-sandboxed.sh: Running, or the exit status
    sbNoCleanup,   \* run-sandboxed.sh: NO_CLEANUP
    sbProfile,     \* run-sandboxed.sh: the temporary sandbox profile exists
    sbPiDir,       \* run-sandboxed.sh: $OUTPUT_DIR/.pi exists
    sbSteps,       \* run-sandboxed.sh: the commands run on the document, in order
    pListening,    \* pencil CLI: lsof lists a listening Pencil process
    pArgs,         \* pencil CLI: [command, options], the options being the names given
    pPc,           \* pencil CLI: position of main()
    pExit,         \* pencil CLI: Running, or the exit status
    mServer,       \* the MCP server process: "none", "running", "exited", "terminated"
    mProcess,      \* MCPClient: this.process is set
    initialized,   \* MCPClient: this.initialized
    requestId,     \* MCPClient: this.requestId
    pendingRequests, \* MCPClient: the ids in this.pendingRequests
    buffer,        \* MCPClient: this.buffer, the incomplete line kept
    mTimers,       \* the armed timers: [due, id] for a request, id 0 for the 1 s wait
    mClock,        \* ms since the CLI started
    mSent,         \* history: the requests written to the server, [id, method, at]
    mSettled,      \* history: the calls of a request's resolve or reject, [id, how]
    mLines         \* history: the responses among the lines of the last stdout data event

vars == << tool, argv, pc, now, exitCode, out, listener, listenedAtStart, extProc,
           pages, tree, hs, cstart, cres, abandoned, strays, sess, browser, page, opStarted,
           thrown,
           ownTab, firefoxBin, proc, nSpawned, firefoxProc, killSent, closeCalled,
           i, connected, nAttempts, spawnedAt, spawnOutcome, spawnEvents, spawnTimer,
           src, cache, cache0, cacheDir, synced, fsPc,
           registry, onDisk, wanted, lkPc, lkResult, lkAvailable, lkLaunched,
           pendingCount, debounceTimer, hasFocus, focusReportingEnabled, timers, clock,
           stdinHandlers, isTTY, isRaw, os, written, executed, inflight, lastFire, nPc,
           lastEnd, burst, unreported, attempts, sinceStart, discarded, focusAtEnd,
           lastFocusEvent,
           sbArgs, sbInputExists, sbPc, sbExit, sbNoCleanup, sbProfile, sbPiDir, sbSteps,
           pArgs, pListening, pPc, pExit, mServer, mProcess, initialized, requestId,
           pendingRequests,
           buffer, mTimers, mClock, mSent, mSettled, mLines >>

procVars == << tool, argv, pc, now, exitCode, out, listener, listenedAtStart, extProc,
               pages, tree, hs, cstart, cres, abandoned, strays, sess, browser, page,
               opStarted, thrown,
               ownTab, firefoxBin, proc, nSpawned, firefoxProc, killSent, closeCalled,
               i, connected, nAttempts, spawnedAt, spawnOutcome, spawnEvents, spawnTimer >>

fsVars == << src, cache, cache0, cacheDir, synced, fsPc >>

lookupVars == << registry, onDisk, wanted, lkPc, lkResult, lkAvailable, lkLaunched >>

notifyVars == << pendingCount, debounceTimer, hasFocus, focusReportingEnabled, timers,
                 clock, stdinHandlers, isTTY, isRaw, os, written, executed, inflight,
                 lastFire, nPc, lastEnd, burst, unreported, attempts, sinceStart, discarded,
                 focusAtEnd,
                 lastFocusEvent >>

sandboxVars == << sbArgs, sbInputExists, sbPc, sbExit, sbNoCleanup, sbProfile, sbPiDir,
                  sbSteps >>

\* The state of the components a specification does not run.
pencilVars == << pArgs, pListening, pPc, pExit, mServer, mProcess, initialized, requestId,
                 pendingRequests, buffer, mTimers, mClock, mSent, mSettled, mLines >>

extv == << lookupVars, notifyVars, sandboxVars, pencilVars >>

(***************************************************************************)
(* Bounds of the model.                                                    *)
(***************************************************************************)
MaxPages == 3

(***************************************************************************)
(* Program constants.                                                      *)
(***************************************************************************)
CONNECT_TIMEOUT == 5000
MAX_ATTEMPTS == 30
POLL_INTERVAL == 500
SPAWN_TIMEOUT == 15000
NAV_TIMEOUT == 15000
TIMEOUT == 60000

\* The value of exitCode while the process has not ended.
Running == -1

(***************************************************************************)
(* The file system.  A file name is a sequence of tokens, "places.sqlite-  *)
(* wal" being <<"places", ".sqlite-wal">>; a path is a sequence of names;  *)
(* a directory tree is a function from the paths of its files to their     *)
(* contents (a sequence of lines); directories are the proper prefixes.    *)
(***************************************************************************)

\* rsync's wildcard match of one name against one pattern; the token "*"
\* matches any run of tokens, every other token matches itself.
RECURSIVE Glob(_, _)
Glob(pat, name) ==
    IF pat = <<>> THEN name = <<>>
    ELSE IF Head(pat) = "*"
         THEN \/ Glob(Tail(pat), name)
              \/ name # <<>> /\ Glob(pat, Tail(name))
         ELSE /\ name # <<>>
              /\ Head(name) = Head(pat)
              /\ Glob(Tail(pat), Tail(name))

\* The --exclude list of syncProfile's rsync command.
EXCLUDES ==
    { <<".parentlock">>, <<"lock">>, <<"crashes">>, <<"datareporting">>,
      <<"cache2">>, <<"startupCache">>, <<"thumbnails">>, <<"safebrowsing">>,
      <<"sessionstore", "*">>, <<"sessionCheckpoints", ".json">>,
      <<"*", ".sqlite-wal">>, <<"*", ".sqlite-shm">>, <<"favicons", ".sqlite">> }

\* A pattern without a slash is matched against every component of a path.
ExcludedBy(pats, path) ==
    \E k \in 1..Len(path) : \E pat \in pats : Glob(pat, path[k])

Excluded(path) == ExcludedBy(EXCLUDES, path)

\* rm -f "$destDir/.parentlock" "$destDir/lock": removes the two files at the
\* top of the directory (a directory of that name is left, the error ignored).
CleanLocks(dst) ==
    [p \in DOMAIN dst \ { << <<".parentlock">> >>, << <<"lock">> >> } |-> dst[p]]

\* rsync -a --delete --exclude=... src/ dst/ with some exclude list: what is not excluded
\* becomes a mirror of the source; what is excluded is neither sent nor deleted.
RsyncWith(pats, source, dst) ==
    LET sent == {p \in DOMAIN source : ~ExcludedBy(pats, p)}
        kept == {p \in DOMAIN dst : ExcludedBy(pats, p)}
    IN [p \in sent \cup kept |-> IF p \in sent THEN source[p] ELSE dst[p]]

\* The command with the --exclude options left out.
RsyncNoExcludes(source, dst) == RsyncWith({}, source, dst)

Rsync(source, dst) == RsyncWith(EXCLUDES, source, dst)

EmptyDir == [p \in {} |-> <<>>]

\* findDefaultProfile() returning null.
NoProfile == [found |-> FALSE, files |-> EmptyDir]

\* mkdir -p "$destDir": the directory exists afterwards, whether or not it did.
mkdirP(exists) == TRUE

\* A syncProfile that runs rsync and reports success without looking at srcProfile.
syncProfileUnchecked(dst, srcProfile) ==
    [profileDir |-> Rsync(srcProfile.files, CleanLocks(dst)), synced |-> TRUE]

\* syncProfile(destDir), srcProfile being what findDefaultProfile() returns:
\* [profileDir, synced]
syncProfile(dst, srcProfile) ==
    LET cleaned == CleanLocks(dst)
    IN IF srcProfile.found
       THEN [profileDir |-> Rsync(srcProfile.files, cleaned), synced |-> TRUE]
       ELSE [profileDir |-> cleaned, synced |-> FALSE]

USER_JS == << <<"user", ".js">> >>

\* The three lines disableSyncPrefs appends: the here-document between
\* << 'PREFS' and PREFS (the template's first line break ends the cat line).
syncPrefs ==
    << "user_pref(\"identity.fxaccounts.enabled\", false);",
       "user_pref(\"datareporting.policy.dataSubmissionEnabled\", false);",
       "user_pref(\"toolkit.telemetry.enabled\", false);" >>

\* existing.includes("identity.fxaccounts.enabled"), line by line: lines that
\* mention the preference are the first override and the two lines MentionsFxa lists.
MentionsFxa ==
    { syncPrefs[1],
      "user_pref(\"identity.fxaccounts.enabled\", true);",
      "// identity.fxaccounts.enabled" }

\* A file whose last line has no line break ends with this marker (a file that
\* ends with a line break, or is empty, is the sequence of its lines).
NoNewline == "\\ No newline at end of file"

\* What may stand on a line in front of a mention: nothing, or an unterminated
\* last line the here-document was appended to.
LineStarts == {"", "// mine"}

includesFxa(content) ==
    \E k \in 1..Len(content) : \E start \in LineStarts : \E m \in MentionsFxa :
        content[k] = start \o m

\* cat >> file << 'PREFS': the bytes of the lines are appended to the bytes of
\* the file, so the first line continues a last line without a line break.
catAppend(existing, lines) ==
    LET n == Len(existing)
    IN IF n >= 2 /\ existing[n] = NoNewline
       THEN SubSeq(existing, 1, n - 2) \o << existing[n - 1] \o Head(lines) >> \o Tail(lines)
       ELSE existing \o lines

\* A disableSyncPrefs that appends without looking at the file.
disableSyncPrefsAlways(dir) ==
    LET existing == IF USER_JS \in DOMAIN dir THEN dir[USER_JS] ELSE <<>>
    IN [p \in DOMAIN dir \cup {USER_JS} |->
           IF p = USER_JS THEN catAppend(existing, syncPrefs) ELSE dir[p]]

\* disableSyncPrefs(profileDir)
disableSyncPrefs(dir) ==
    LET existing == IF USER_JS \in DOMAIN dir THEN dir[USER_JS] ELSE <<>>
    IN IF ~includesFxa(existing)
       THEN [p \in DOMAIN dir \cup {USER_JS} |->
                IF p = USER_JS THEN catAppend(existing, syncPrefs) ELSE dir[p]]
       ELSE dir

\* disableSyncPrefs(profileDir) as the script calls it, the directory existing or
\* not: in a missing directory cat >> fails and the catch swallows the error.
writePrefs(exists, dir) == IF exists THEN disableSyncPrefs(dir) ELSE dir


(***************************************************************************)
(* Named profiles.  The Profile Groups directory holds database files; a   *)
(* file is [name, readable, rows], its name a sequence of tokens, readable *)
(* when it opens and has a Profiles table, each row a [name, path].        *)
(***************************************************************************)

\* f.endsWith(".sqlite")
IsSqlite(file) == file.name # <<>> /\ file.name[Len(file.name)] = ".sqlite"

\* The rows the loop over the files reaches, in readdir order: those of the
\* .sqlite files that open, whose path exists.
RECURSIVE QueryRows(_, _)
QueryRows(files, paths) ==
    IF files = <<>> THEN <<>>
    ELSE LET file == Head(files)
             rows == IF IsSqlite(file) /\ file.readable
                     THEN SelectSeq(file.rows, LAMBDA r : r.path \in paths)
                     ELSE <<>>
         IN rows \o QueryRows(Tail(files), paths)

\* findProfileByName returning null
NotFound == [found |-> FALSE, path |-> "", matches |-> 0]

\* A lookup that falls back to the first profile of any name.
findProfileByNameOrAny(name, reg, paths) ==
    IF ~reg.groups THEN NotFound
    ELSE LET any == QueryRows(reg.files, paths)
             matches == SelectSeq(any, LAMBDA r : r.name = name)
         IN IF matches # <<>>
            THEN [found |-> TRUE, path |-> matches[1].path, matches |-> Len(matches)]
            ELSE IF any # <<>>
                 THEN [found |-> TRUE, path |-> any[1].path, matches |-> 1]
                 ELSE NotFound

\* findProfileByName(name): { path, warning? } for the first match (a warning
\* when matches > 1), null without the groups directory or without a match.
findProfileByName(name, reg, paths) ==
    IF ~reg.groups THEN NotFound
    ELSE LET matches == SelectSeq(QueryRows(reg.files, paths), LAMBDA r : r.name = name)
         IN IF matches = <<>> THEN NotFound
            ELSE [found |-> TRUE, path |-> matches[1].path, matches |-> Len(matches)]

\* listProfileNames(): the names of all rows whose path exists.
listProfileNames(reg, paths) ==
    IF ~reg.groups THEN <<>>
    ELSE LET rows == QueryRows(reg.files, paths)
         IN [k \in 1..Len(rows) |-> rows[k].name]

(***************************************************************************)
(* Active-page resolution.                                                 *)
(***************************************************************************)
NoPage == 0

\* Array.prototype.at(-1): the last element, undefined for an empty array.
AtLast(s) == IF s = <<>> THEN NoPage ELSE s[Len(s)]

\* activePage as first written: the last enumerated page, whatever it is.
activePageUnfiltered(ps, contexts) == AtLast(ps)

\* An activePage without the fallback: topLevelPages.at(-1) only.
activePageNoFallback(ps, contexts) ==
    AtLast(SelectSeq(ps, LAMBDA p : p \in contexts))

\* activePage(browser), given browser.pages() and the getTree contexts:
\* topLevelPages.at(-1) || pages.at(-1)
activePage(ps, contexts) ==
    LET topLevelPages == SelectSeq(ps, LAMBDA p : p \in contexts)
    IN IF AtLast(topLevelPages) # NoPage THEN AtLast(topLevelPages) ELSE AtLast(ps)

(***************************************************************************)
(* connect(): a race between puppeteer.connect() and a 5 s timer.          *)
(***************************************************************************)

\* How long a handshake may take to complete or fail: quickly, exactly as the
\* timer fires, or later than that.
Quick == 100

HandshakeDelays == {Quick, CONNECT_TIMEOUT, CONNECT_TIMEOUT + 1000}

\* What the handshake started now will do: refused quickly when nothing
\* listens; otherwise it completes or fails after some delay, or never ends.
HandshakeFates(l) ==
    IF l = "none"
    THEN {[kind |-> "refused", delay |-> Quick, to |-> l]}
    ELSE {[kind |-> k, delay |-> d, to |-> l] :
              k \in {"ok", "protocol"}, d \in HandshakeDelays}
         \cup {[kind |-> "hang", delay |-> 0, to |-> l]}

NoHandshake == [kind |-> "none", delay |-> 0, to |-> "none"]

HandshakeResult(h) == IF h.kind = "ok" THEN "session" ELSE h.kind

\* The handshake alone, with no timer racing it.
connectNoTimer(h) ==
    IF h.kind = "hang" THEN {}
    ELSE {[res |-> HandshakeResult(h), at |-> h.delay]}

\* Promise.race([puppeteer.connect(...), timer]): the ways connect() can settle
\* and when; at a tie either promise may settle first.
connect(h) ==
    {[res |-> HandshakeResult(h), at |-> h.delay] :
        x \in {y \in {h.kind} : y # "hang" /\ h.delay <= CONNECT_TIMEOUT}}
    \cup
    {[res |-> "timeout", at |-> CONNECT_TIMEOUT] :
        x \in {y \in {h.kind} : y = "hang" \/ h.delay >= CONNECT_TIMEOUT}}


(***************************************************************************)
(* One invocation of a tool.                                               *)
(***************************************************************************)
WithBrowserTools == {"firefox-screenshot", "firefox-eval", "firefox-cookies"}

\* The two documented tools whose scripts are not among the sources: each is
\* one operation on the current tab of the connected browser, taken here to
\* be run through withBrowser as the other tools of the current tab are.
PageTools == {"firefox-pick", "firefox-upload"}

\* The tools that operate on the current tab.
CurrentTabTools == WithBrowserTools \cup PageTools

Tools == CurrentTabTools \cup {"firefox-nav", "firefox-start", "firefox-content"}

\* The command lines tried for each tool.
ArgvOf(t) ==
    CASE t = "firefox-eval" -> {<<>>, <<"document.title">>}
      [] t = "firefox-nav" -> {<<>>, <<"https://example.com">>,
                               <<"https://example.com", "--new">>}
      [] t = "firefox-start" -> {<<>>, <<"--help">>, <<"--no-profile">>}
      [] t = "firefox-content" -> {<<>>, <<"https://example.com">>}
      [] t = "firefox-pick" -> {<<"Click the close button">>}
      [] t = "firefox-upload" -> {<<"/path/to/file">>}
      [] OTHER -> {<<>>}

Arg(k) == IF Len(argv) >= k THEN argv[k] ELSE ""

\* The pages a running browser may enumerate, and the top-level contexts
\* getTree may report for them.
PageLists == {[k \in 1..n |-> k] : n \in 0..MaxPages}

\* Sample profiles for the tools that provision one.
SampleProfile ==
    [found |-> TRUE,
     files |-> [p \in { << <<"cookies", ".sqlite">> >>, << <<"lock">> >>,
                        << <<"cache2">>, <<"entries">> >> } |-> <<"user data">>]]

\* The same profile after the user went on browsing with it.
NewerProfile ==
    [found |-> TRUE,
     files |-> [p \in { << <<"cookies", ".sqlite">> >>, << <<"lock">> >>,
                        << <<"cache2">>, <<"entries">> >> } |-> <<"newer user data">>]]

\* The cache directory as an earlier invocation with profile copying and the
\* browser it started left it: the synced profile, and a session store.
UsedCache ==
    LET copied == disableSyncPrefs(syncProfile(EmptyDir, SampleProfile).profileDir)
        leftByBrowser == { << <<"sessionstore", ".jsonlz4">> >> }
    IN [p \in DOMAIN copied \cup leftByBrowser |->
           IF p \in leftByBrowser THEN <<"cached data">> ELSE copied[p]]

\* debounceTimer = null
NoTimer == 0

\* lastFire before the timer callback has run
NeverFired == [ran |-> FALSE, focus |-> FALSE, count |-> 0]

\* Nothing has happened yet.
NoHistory ==
    /\ lastEnd = 0 /\ burst = 0 /\ unreported = 0 /\ attempts = 0 /\ sinceStart = 0
    /\ discarded = 0
    /\ focusAtEnd = TRUE /\ lastFocusEvent = "none"

\* The notify-on-idle extension is not loaded.
NoNotify ==
    /\ pendingCount = 0 /\ debounceTimer = NoTimer /\ hasFocus = TRUE
    /\ focusReportingEnabled = FALSE /\ timers = {} /\ clock = 0 /\ stdinHandlers = 0
    /\ isTTY = FALSE /\ isRaw = FALSE /\ os = "linux" /\ written = <<>> /\ executed = <<>>
    /\ inflight = 0 /\ lastFire = NeverFired /\ nPc = "idle"
    /\ NoHistory

\* The pencil CLI does not run.
NoPencil ==
    /\ pArgs = <<>> /\ pListening = FALSE /\ pPc = "idle" /\ pExit = 0
    /\ mServer = "none" /\ mProcess = FALSE
    /\ initialized = FALSE /\ requestId = 0 /\ pendingRequests = {} /\ buffer = <<>>
    /\ mTimers = {} /\ mClock = 0 /\ mSent = <<>> /\ mSettled = <<>> /\ mLines = <<>>

\* run-sandboxed.sh does not run.
NoSandbox ==
    /\ sbArgs = <<>> /\ sbInputExists = FALSE /\ sbPc = "idle" /\ sbExit = 0
    /\ sbNoCleanup = FALSE /\ sbProfile = FALSE /\ sbPiDir = FALSE /\ sbSteps = <<>>

NoRegistry == [groups |-> FALSE, files |-> <<>>]

\* The named-profile launch does not run.
NoLookup ==
    /\ registry = NoRegistry /\ onDisk = {} /\ wanted = "" /\ lkPc = "idle"
    /\ lkResult = NotFound /\ lkAvailable = <<>> /\ lkLaunched = FALSE

\* The profile provisioner does not run.
NoProvisioning ==
    /\ src = NoProfile /\ cache = EmptyDir /\ cache0 = EmptyDir /\ synced = FALSE
    /\ cacheDir = FALSE
    /\ fsPc = "idle"

Init ==
    /\ tool \in Tools
    /\ argv \in ArgvOf(tool)
    /\ pc = "begin"
    /\ now = 0
    /\ exitCode = Running
    /\ out = {}
    /\ listener \in {"none", "existing"}
    /\ listenedAtStart = (listener = "existing")
    /\ extProc = IF listener = "existing" THEN "running" ELSE "none"
    /\ pages \in IF listener = "existing" /\ tool \in CurrentTabTools \cup {"firefox-nav"}
                 THEN PageLists ELSE {<<>>}
    /\ tree \in SUBSET {pages[k] : k \in 1..Len(pages)}
    /\ hs = NoHandshake
    /\ cstart = 0
    /\ abandoned = {}
    /\ strays = {}
    /\ cres = "idle"
    /\ sess = [b \in {"existing", "spawned"} |-> "none"]
    /\ browser = "none"
    /\ page = NoPage
    /\ opStarted = FALSE
    /\ thrown = FALSE
    /\ ownTab = FALSE
    /\ firefoxBin \in IF tool \in {"firefox-start", "firefox-content"} THEN BOOLEAN ELSE {TRUE}
    /\ proc = "none"
    /\ nSpawned = 0
    /\ firefoxProc = FALSE
    /\ killSent = FALSE
    /\ closeCalled = "none"
    /\ i = 0
    /\ connected = FALSE
    /\ nAttempts = 0
    /\ spawnedAt = 0
    /\ spawnOutcome = "idle"
    /\ spawnEvents = <<>>
    /\ spawnTimer = FALSE
    /\ src \in IF tool \in {"firefox-start", "firefox-content"}
               THEN {NoProfile, NewerProfile} ELSE {NoProfile}
    /\ cache \in IF tool \in {"firefox-start", "firefox-content"}
                 THEN {EmptyDir, UsedCache} ELSE {EmptyDir}
    /\ cache0 = cache
    /\ cacheDir \in IF cache # EmptyDir THEN {TRUE}
                    ELSE IF tool \in {"firefox-start", "firefox-content"} THEN BOOLEAN
                    ELSE {FALSE}
    /\ synced = FALSE
    /\ fsPc = "idle"
    /\ NoLookup
    /\ NoNotify
    /\ NoSandbox
    /\ NoPencil

ctl == << pc, now, exitCode, out >>
inputs == << tool, argv, listenedAtStart, pages, tree, firefoxBin, src >>
conn == << hs, cstart, cres, abandoned, strays >>
spawnv == << proc, nSpawned, firefoxProc, killSent, closeCalled >>
loopv == << i, connected, nAttempts >>
pagev == << page, opStarted, thrown, ownTab >>
fsv == << cache, cache0, cacheDir, synced, fsPc >>
racev == << spawnOutcome, spawnEvents, spawnTimer >>

\* process.exit(code), or the process ending with that code, after printing msgs.
Exit(code, msgs) ==
    /\ pc' = "exited"
    /\ exitCode' = code
    /\ out' = out \cup msgs

\* An exception nobody catches: node prints it and exits with code 1.
Uncaught(what) == Exit(1, {<<"Uncaught", what>>})

\* connect() is called: the handshake starts and the timer is armed.
BeginConnect ==
    /\ cres' = "pending"
    /\ cstart' = now
    /\ hs' \in HandshakeFates(listener)
    /\ UNCHANGED << abandoned, strays >>

Settled == cres \notin {"idle", "pending"}

\* Promise.race does not cancel puppeteer.connect(): when the timer has won,
\* a handshake that is going to complete goes on and completes later.
Abandon(h, start, res) ==
    IF res = "timeout" /\ h.kind = "ok"
    THEN {[to |-> h.to, due |-> start + h.delay]}
    ELSE {}

\* The abandoned handshakes that have completed before time t.
Completed(t) == {a \in abandoned : a.due < t}

\* The browsers with a session that an abandoned handshake has opened while
\* the process was running; nothing holds such a session, so nothing
\* disconnects it.
Strays == strays \cup {a.to : a \in Completed(now)}

\* The caller's await of connect() resumes, and the script is next at an
\* await at time t: the handshake is over, or it is abandoned.
TakeResultUntil(t) ==
    LET inProgress == abandoned \cup Abandon(hs, cstart, cres)
        done == {a \in inProgress : a.due < t}
    IN /\ hs' = NoHandshake
       /\ cstart' = IF cres = "session" THEN cstart ELSE 0
       /\ abandoned' = inProgress \ done
       /\ strays' = strays \cup {a.to : a \in done}
       /\ UNCHANGED cres

TakeResult == TakeResultUntil(now)

\* The greatest of a set of times.
Latest(S) == CHOOSE t \in S : \A u \in S : u <= t

\* The script has run to its end after a connect() that returned a session.
\* connect() never clears its 5 s timer, so node stays alive until the timer
\* of that last connect() has fired, and until the handshakes still in
\* progress have completed.  The process then ends with status 0 when
\* nothing is left open; the socket of a session nobody disconnects keeps it
\* alive for as long as the browser at the other end runs.
Finish(msgs) ==
    /\ now' = Latest({now, cstart + CONNECT_TIMEOUT} \cup {a.due : a \in abandoned})
    /\ strays' = strays \cup {a.to : a \in abandoned}
    /\ abandoned' = {}
    /\ IF strays \cup {a.to : a \in abandoned} = {}
       THEN Exit(0, msgs)
       ELSE pc' = "held_open" /\ out' = out \cup msgs /\ UNCHANGED exitCode
    /\ UNCHANGED << hs, cstart, cres >>

\* The race of connect() settles.
ConnectSettle ==
    /\ cres = "pending"
    /\ \E o \in connect(hs) :
          /\ cres' = o.res
          /\ now' = cstart + o.at
    /\ UNCHANGED << pc, exitCode, out, hs, cstart, abandoned, strays, inputs, listener,
                    extProc, sess, browser, pagev, spawnv, loopv, fsv >>
    /\ UNCHANGED << spawnedAt, racev, extv >>

\* A connectOrExit() that logs nothing and returns undefined on failure.
connectOrContinue(next) ==
    /\ Settled
    /\ TakeResult
    /\ pc' = next
    /\ IF cres = "session"
       THEN /\ sess' = [sess EXCEPT ![hs.to] = "open"]
            /\ browser' = hs.to
       ELSE UNCHANGED << sess, browser >>
    /\ UNCHANGED << exitCode, out >>

\* connectOrExit() after connect() settled: the session, or the two error
\* lines and process.exit(1).
connectOrExit(next) ==
    /\ Settled
    /\ TakeResult
    /\ IF cres = "session"
       THEN /\ sess' = [sess EXCEPT ![hs.to] = "open"]
            /\ browser' = hs.to
            /\ pc' = next
            /\ UNCHANGED << exitCode, out >>
       ELSE /\ Exit(1, {<<"Could not connect to Firefox:", cres>>,
                        <<"Run: firefox-start.js">>})
            /\ UNCHANGED << sess, browser >>


(***************************************************************************)
(* The withBrowser tools: firefox-screenshot, firefox-eval,                *)
(* firefox-cookies, and with them firefox-pick and firefox-upload.         *)
(*   withBrowser(fn): try { browser = await connectOrExit();               *)
(*                          await fn(browser) }                            *)
(*                    finally { await browser?.disconnect() }              *)
(***************************************************************************)

\* The script starts: firefox-eval prints its usage and exits without code to
\* evaluate; otherwise withBrowser calls connectOrExit.
WB_Begin ==
    /\ tool \in CurrentTabTools
    /\ pc = "begin"
    /\ IF tool = "firefox-eval" /\ argv = <<>>
       THEN /\ Exit(1, {<<"Usage: firefox-eval.js 'code'">>})
            /\ UNCHANGED << now, conn >>
       ELSE /\ BeginConnect
            /\ pc' = "wb_connect"
            /\ UNCHANGED << now, exitCode, out >>
    /\ UNCHANGED << inputs, listener, extProc, sess, browser, pagev, spawnv, loopv, fsv >>
    /\ UNCHANGED << spawnedAt, racev, extv >>

WB_Connect ==
    /\ tool \in CurrentTabTools
    /\ pc = "wb_connect"
    /\ connectOrExit("wb_pages")
    /\ UNCHANGED << now, inputs, listener, extProc, pagev, spawnv, loopv, fsv >>
    /\ UNCHANGED << spawnedAt, racev, extv >>

\* process.exit(1) inside the try block: the finally block does not run.
noActiveTab == Exit(1, {<<"No active tab found">>})

\* a thrown error passes through the finally block, which disconnects.
throwToFinally == pc' = "wb_finally" /\ thrown' = TRUE /\ UNCHANGED << exitCode, out >>

\* fn starts with activePage(browser): await browser.pages(), which may throw.
WB_Pages ==
    /\ tool \in CurrentTabTools
    /\ pc = "wb_pages"
    /\ \/ /\ pages = <<>>
          /\ noActiveTab
          /\ UNCHANGED thrown
       \/ /\ pages # <<>>
          /\ pc' = "wb_tree"
          /\ UNCHANGED << exitCode, out, thrown >>
       \/ throwToFinally
    /\ UNCHANGED << now, conn, inputs, listener, extProc, sess, browser,
                    page, opStarted, ownTab, spawnv, loopv, fsv >>
    /\ UNCHANGED << spawnedAt, racev, extv >>

\* activePage goes on: getTree (which may throw), the filter, the choice.
WB_Tree ==
    /\ tool \in CurrentTabTools
    /\ pc = "wb_tree"
    /\ \/ /\ activePage(pages, tree) = NoPage
          /\ noActiveTab
          /\ UNCHANGED << page, thrown >>
       \/ /\ activePage(pages, tree) # NoPage
          /\ page' = activePage(pages, tree)
          /\ pc' = "wb_op"
          /\ UNCHANGED << exitCode, out, thrown >>
       \/ /\ throwToFinally
          /\ UNCHANGED page
    /\ UNCHANGED << now, conn, inputs, listener, extProc, sess, browser,
                    opStarted, ownTab, spawnv, loopv, fsv >>
    /\ UNCHANGED << spawnedAt, racev, extv >>

\* The tool's page operation (screenshot, evaluate, cookies, the picker, the
\* upload) returns or throws.
WB_Op ==
    /\ tool \in CurrentTabTools
    /\ pc = "wb_op"
    /\ opStarted' = TRUE
    /\ pc' = "wb_finally"
    /\ thrown' \in BOOLEAN
    /\ UNCHANGED << now, exitCode, out, conn, inputs, listener, extProc, sess, browser,
                    page, ownTab, spawnv, loopv, fsv >>
    /\ UNCHANGED << spawnedAt, racev, extv >>

\* finally { await browser?.disconnect() }, then the script ends: normally, or
\* with the error that passed through.
WB_Finally ==
    /\ tool \in CurrentTabTools
    /\ pc = "wb_finally"
    /\ sess' = [sess EXCEPT ![browser] = "disconnected"]
    /\ IF thrown THEN Uncaught("Error") /\ UNCHANGED << now, conn >> ELSE Finish({})
    /\ UNCHANGED << inputs, listener, extProc, browser, pagev, spawnv, loopv, fsv >>
    /\ UNCHANGED << spawnedAt, racev, extv >>

(***************************************************************************)
(* firefox-nav <url> [--new]                                               *)
(***************************************************************************)
NAV_Begin ==
    /\ tool = "firefox-nav"
    /\ pc = "begin"
    /\ IF Arg(1) = ""
       THEN /\ Exit(1, {<<"Usage: firefox-nav.js <url> [--new]">>})
            /\ UNCHANGED << now, conn >>
       ELSE /\ BeginConnect
            /\ pc' = "nav_connect"
            /\ UNCHANGED << now, exitCode, out >>
    /\ UNCHANGED << inputs, listener, extProc, sess, browser, pagev, spawnv, loopv, fsv >>
    /\ UNCHANGED << spawnedAt, racev, extv >>

NAV_Connect ==
    /\ tool = "firefox-nav"
    /\ pc = "nav_connect"
    /\ connectOrExit(IF Arg(2) = "--new" THEN "nav_newpage" ELSE "nav_pages")
    /\ UNCHANGED << now, inputs, listener, extProc, pagev, spawnv, loopv, fsv >>
    /\ UNCHANGED << spawnedAt, racev, extv >>

\* --new: await browser.newPage()
NAV_NewPage ==
    /\ tool = "firefox-nav"
    /\ pc = "nav_newpage"
    /\ \/ /\ ownTab' = TRUE
          /\ page' = Len(pages) + 1
          /\ pc' = "nav_goto"
          /\ UNCHANGED << exitCode, out >>
       \/ /\ Uncaught("Error")
          /\ UNCHANGED << ownTab, page >>
    /\ UNCHANGED << now, conn, inputs, listener, extProc, sess, browser,
                    opStarted, thrown, spawnv, loopv, fsv >>
    /\ UNCHANGED << spawnedAt, racev, extv >>

\* without --new: await browser.pages(), which may reject (nothing catches
\* it); pages.at(-1), then page.goto on it; on undefined that is a TypeError
\* before any page operation.
NAV_Pages ==
    /\ tool = "firefox-nav"
    /\ pc = "nav_pages"
    /\ \/ /\ page' = AtLast(pages)
          /\ IF AtLast(pages) = NoPage
             THEN Uncaught("TypeError: Cannot read properties of undefined (reading 'goto')")
             ELSE pc' = "nav_goto" /\ UNCHANGED << exitCode, out >>
       \/ /\ Uncaught("Error")
          /\ UNCHANGED page
    /\ UNCHANGED << now, conn, inputs, listener, extProc, sess, browser,
                    opStarted, thrown, ownTab, spawnv, loopv, fsv >>
    /\ UNCHANGED << spawnedAt, racev, extv >>

\* await page.goto(url, ...): returns or throws (nothing catches it).
NAV_Goto ==
    /\ tool = "firefox-nav"
    /\ pc = "nav_goto"
    /\ opStarted' = TRUE
    /\ \/ pc' = "nav_disconnect" /\ UNCHANGED << exitCode, out >>
       \/ Uncaught("Error")
    /\ UNCHANGED << now, conn, inputs, listener, extProc, sess, browser,
                    page, thrown, ownTab, spawnv, loopv, fsv >>
    /\ UNCHANGED << spawnedAt, racev, extv >>

\* await browser.disconnect(), and the script ends.
NAV_Disconnect ==
    /\ tool = "firefox-nav"
    /\ pc = "nav_disconnect"
    /\ sess' = [sess EXCEPT ![browser] = "disconnected"]
    /\ Finish({<<"Navigated or opened">>})
    /\ UNCHANGED << inputs, listener, extProc, browser, pagev, spawnv, loopv, fsv >>
    /\ UNCHANGED << spawnedAt, racev, extv >>


(***************************************************************************)
(* firefox-start [--no-profile]                                            *)
(***************************************************************************)
skipProfile == Arg(1) = "--no-profile"

\* --help, or the check whether Firefox is already running begins.
ST_Begin ==
    /\ tool = "firefox-start"
    /\ pc = "begin"
    /\ IF Arg(1) \in {"--help", "-h"}
       THEN /\ Exit(0, {<<"Usage: firefox-start.js [--no-profile]">>})
            /\ UNCHANGED << now, conn >>
       ELSE /\ BeginConnect
            /\ pc' = "st_probe"
            /\ UNCHANGED << now, exitCode, out >>
    /\ UNCHANGED << inputs, listener, extProc, sess, browser, pagev, spawnv, loopv, fsv >>
    /\ UNCHANGED << spawnedAt, racev, extv >>

\* try { browser = await connect(); await browser.disconnect(); exit(0) } catch {}
ST_Probe ==
    /\ tool = "firefox-start"
    /\ pc = "st_probe"
    /\ Settled
    /\ TakeResult
    /\ IF cres = "session"
       THEN /\ sess' = [sess EXCEPT ![hs.to] = "disconnected"]
            /\ Exit(0, {<<"Firefox already running">>})
       ELSE /\ pc' = "st_find"
            /\ UNCHANGED << sess, exitCode, out >>
    /\ UNCHANGED << now, inputs, listener, extProc, browser, pagev, spawnv, loopv, fsv >>
    /\ UNCHANGED << spawnedAt, racev, extv >>

ST_Find ==
    /\ tool = "firefox-start"
    /\ pc = "st_find"
    /\ IF firefoxBin
       THEN pc' = "st_sync" /\ UNCHANGED << exitCode, out >>
       ELSE Exit(1, {<<"Could not find Firefox">>})
    /\ UNCHANGED << now, conn, inputs, listener, extProc, sess, browser, pagev,
                    spawnv, loopv, fsv >>
    /\ UNCHANGED << spawnedAt, racev, extv >>

\* if (!skipProfile) { const { synced } = syncProfile(PROFILE_DST); ... }
ST_Sync ==
    /\ tool = "firefox-start"
    /\ pc = "st_sync"
    /\ pc' = "st_prefs"
    /\ IF ~skipProfile
       THEN LET r == syncProfile(cache, src)
            IN /\ cache0' = cache
               /\ cache' = r.profileDir
               /\ cacheDir' = mkdirP(cacheDir)
               /\ synced' = r.synced
               /\ out' = out \cup {IF r.synced THEN <<"Profile synced.">>
                                   ELSE <<"Could not find Firefox profile, starting fresh.">>}
       ELSE UNCHANGED << cache, cache0, cacheDir, synced, out >>
    /\ UNCHANGED << now, exitCode, conn, inputs, listener, extProc, sess, browser, pagev,
                    spawnv, loopv, fsPc >>
    /\ UNCHANGED << spawnedAt, racev, extv >>

\* disableSyncPrefs(PROFILE_DST)
ST_Prefs ==
    /\ tool = "firefox-start"
    /\ pc = "st_prefs"
    /\ pc' = "st_spawn"
    /\ cache' = writePrefs(cacheDir, cache)
    /\ UNCHANGED << now, exitCode, out, conn, inputs, listener, extProc, sess, browser,
                    pagev, spawnv, loopv, cache0, cacheDir, synced, fsPc >>
    /\ UNCHANGED << spawnedAt, racev, extv >>

\* spawn(firefoxBin, [--remote-debugging-port, PORT, --profile, ...]).unref()
ST_Spawn ==
    /\ tool = "firefox-start"
    /\ pc = "st_spawn"
    /\ pc' = "st_loop"
    /\ proc' = "running"
    /\ nSpawned' = nSpawned + 1
    /\ i' = 0
    /\ spawnedAt' = now
    /\ UNCHANGED << now, exitCode, out, conn, inputs, listener, extProc, sess, browser,
                    pagev, firefoxProc, killSent, closeCalled, connected, nAttempts, fsv,
                    racev, extv >>

\* The spawned browser starts listening on the port (if nothing else holds it).
BrowserReady ==
    /\ tool = "firefox-start"
    /\ proc = "running"
    /\ pc \in {"st_loop", "st_wait"}
    /\ listener = "none"
    /\ listener' = "spawned"
    /\ UNCHANGED << ctl, conn, inputs, extProc, sess, browser, pagev, spawnv, loopv, fsv >>
    /\ UNCHANGED << spawnedAt, racev, extv >>

\* A loop condition that lets one attempt too many through.
moreAttemptsOffByOne == i <= MAX_ATTEMPTS

\* i < 30
moreAttempts == i < MAX_ATTEMPTS

\* for (let i = 0; i < 30; i++) { try { browser = await connect(); ...
ST_Loop ==
    /\ tool = "firefox-start"
    /\ pc = "st_loop"
    /\ IF moreAttempts
       THEN /\ BeginConnect
            /\ nAttempts' = nAttempts + 1
            /\ pc' = "st_wait"
       ELSE /\ pc' = "st_after"
            /\ UNCHANGED << conn, nAttempts >>
    /\ UNCHANGED << now, exitCode, out, inputs, listener, extProc, sess, browser, pagev,
                    spawnv, i, connected, fsv >>
    /\ UNCHANGED << spawnedAt, racev, extv >>

\* A catch block that goes straight to the next attempt.
noSleep(t) == t

\* await new Promise((r) => setTimeout(r, 500))
sleep(t) == t + POLL_INTERVAL

\* ... await browser.disconnect(); connected = true; break }
\*     catch { await new Promise((r) => setTimeout(r, 500)) } }
ST_Wait ==
    /\ tool = "firefox-start"
    /\ pc = "st_wait"
    /\ Settled
    /\ TakeResultUntil(IF cres = "session" THEN now ELSE sleep(now))
    /\ IF cres = "session"
       THEN /\ sess' = [sess EXCEPT ![hs.to] = "disconnected"]
            /\ connected' = TRUE
            /\ pc' = "st_after"
            /\ UNCHANGED << now, i >>
       ELSE /\ now' = sleep(now)
            /\ i' = i + 1
            /\ pc' = "st_loop"
            /\ UNCHANGED << sess, connected >>
    /\ UNCHANGED << exitCode, out, inputs, listener, extProc, browser, pagev,
                    spawnv, nAttempts, fsv >>
    /\ UNCHANGED << spawnedAt, racev, extv >>

\* if (!connected) { console.error(...); process.exit(1) }  console.log(started)
ST_After ==
    /\ tool = "firefox-start"
    /\ pc = "st_after"
    /\ IF ~connected
       THEN Exit(1, {<<"Failed to connect to Firefox">>}) /\ UNCHANGED << now, conn >>
       ELSE Finish({<<"Firefox started">>})
    /\ UNCHANGED << inputs, listener, extProc, sess, browser, pagev, spawnv, loopv, fsv >>
    /\ UNCHANGED << spawnedAt, racev, extv >>


(***************************************************************************)
(* firefox-content <url>                                                   *)
(***************************************************************************)

\* How long an await that no timer bounds may take: no time to speak of, or
\* most of the 60 s the script has.
Slow == 50000

AwaitDelays == {0, Slow}

\* The await the script is at ends d ms from now; the global timer, armed
\* when the script started, has not fired before.
Takes(d) == now + d <= TIMEOUT /\ now' = now + d

CT_Begin ==
    /\ tool = "firefox-content"
    /\ pc = "begin"
    /\ IF Arg(1) = ""
       THEN /\ Exit(1, {<<"Usage: firefox-content.js <url>">>})
            /\ UNCHANGED << now, conn >>
       ELSE /\ BeginConnect
            /\ pc' = "ct_connect"
            /\ UNCHANGED << now, exitCode, out >>
    /\ UNCHANGED << inputs, listener, extProc, sess, browser, pagev, spawnv, loopv, fsv >>
    /\ UNCHANGED << spawnedAt, racev, extv >>

\* try { browser = await connect(); ... } catch { spawn a headless one }
CT_Connect ==
    /\ tool = "firefox-content"
    /\ pc = "ct_connect"
    /\ Settled
    /\ TakeResult
    /\ IF cres = "session"
       THEN /\ sess' = [sess EXCEPT ![hs.to] = "open"]
            /\ browser' = hs.to
            /\ pc' = "ct_newpage"
       ELSE /\ pc' = "ct_spawn"
            /\ UNCHANGED << sess, browser >>
    /\ UNCHANGED << now, exitCode, out, inputs, listener, extProc, pagev,
                    spawnv, loopv, fsv >>
    /\ UNCHANGED << spawnedAt, racev, extv >>

\* page = await browser.newPage(), still inside the try: a failure is caught
\* by the same catch block.
CT_NewPage ==
    /\ tool = "firefox-content"
    /\ pc = "ct_newpage"
    /\ \E d \in AwaitDelays : Takes(d)
    /\ \/ /\ ownTab' = TRUE
          /\ page' = 1
          /\ pc' = "ct_goto"
       \/ /\ pc' = "ct_spawn"
          /\ UNCHANGED << ownTab, page >>
    /\ UNCHANGED << exitCode, out, conn, inputs, listener, extProc, sess, browser,
                    opStarted, thrown, spawnv, loopv, fsv >>
    /\ UNCHANGED << spawnedAt, racev, extv >>

\* A cache that is never taken as usable: the profile is synced at every spawn.
hasCacheNever == FALSE

\* existsSync(profileDir) && readdirSync(profileDir).length > 0
hasCache == cacheDir /\ DOMAIN cache # {}

\* spawnHeadlessFirefox() up to the spawn() call: findFirefox, the profile
\* (synced only when the cache is empty), spawn(..., { detached: true }).
CT_Spawn ==
    /\ tool = "firefox-content"
    /\ pc = "ct_spawn"
    /\ IF ~firefoxBin
       THEN /\ Exit(1, {<<"Could not find Firefox">>})
            /\ UNCHANGED << proc, nSpawned, fsv, spawnedAt, racev >>
       ELSE /\ IF ~hasCache
               THEN LET r == syncProfile(cache, src)
                    IN /\ cache0' = cache
                       /\ cache' = disableSyncPrefs(r.profileDir)
                       /\ cacheDir' = mkdirP(cacheDir)
                       /\ synced' = r.synced
               ELSE UNCHANGED << cache, cache0, cacheDir, synced >>
            /\ proc' = "running"
            /\ nSpawned' = nSpawned + 1
            /\ spawnedAt' = now
            /\ spawnOutcome' = "pending"
            /\ spawnTimer' = TRUE
            /\ pc' = "ct_spawn_wait"
            /\ UNCHANGED << exitCode, out, fsPc, spawnEvents >>
    /\ UNCHANGED << now, conn, inputs, listener, extProc, sess, browser, pagev,
                    firefoxProc, killSent, closeCalled, loopv, extv >>

\* How long the browser may take to announce its endpoint, or to exit.
SpawnDelays == {1000}

\* Lines of the browser's output are delivered while fewer than MaxLines
\* events have been received.
MaxLines == 2

\* A promise settled by whichever call comes last.
settleLast(outcome, event) == event

\* resolve() / reject() of the promise: the first call decides, later calls
\* are ignored.
settle(outcome, event) == IF outcome = "pending" THEN event ELSE outcome

\* The time an event of the pending launch arrives, d ms after the spawn.
ArrivesAt(d) ==
    IF spawnOutcome = "pending" /\ now < spawnedAt + d THEN spawnedAt + d ELSE now

\* The script of firefox-content is between the spawn and its end.
Listening ==
    /\ tool = "firefox-content"
    /\ pc # "exited"
    /\ spawnOutcome # "idle"

\* onLine(line): a line of the browser's stdout or stderr; when it matches
\* /^WebDriver BiDi listening on (ws:\/\/.*)$/ the timer is cleared and the
\* promise resolved with the endpoint.
SP_Line ==
    /\ Listening
    /\ proc = "running"
    /\ Len(spawnEvents) < MaxLines
    /\ \E matches \in BOOLEAN :
          IF matches
          THEN /\ spawnTimer' = FALSE
               /\ spawnOutcome' = settle(spawnOutcome, "listening")
               /\ spawnEvents' = Append(spawnEvents, "listening")
          ELSE /\ spawnEvents' = Append(spawnEvents, "noise")
               /\ UNCHANGED << spawnTimer, spawnOutcome >>
    /\ \E d \in SpawnDelays : now' = ArrivesAt(d)
    /\ now' <= TIMEOUT
    /\ UNCHANGED << pc, exitCode, out, conn, inputs, listener, extProc, sess, browser, pagev,
                    spawnv, loopv, fsv, spawnedAt, extv >>

\* proc.on("exit", ...): the browser exits by itself; the timer is cleared
\* and the promise rejected with "Firefox exited with code ...".
SP_Exit ==
    /\ Listening
    /\ proc = "running"
    /\ proc' = "exited"
    /\ spawnTimer' = FALSE
    /\ spawnOutcome' = settle(spawnOutcome, "exited")
    /\ spawnEvents' = Append(spawnEvents, "exited")
    /\ \E d \in SpawnDelays : now' = ArrivesAt(d)
    /\ now' <= TIMEOUT
    /\ UNCHANGED << pc, exitCode, out, conn, inputs, listener, extProc, sess, browser, pagev,
                    nSpawned, firefoxProc, killSent, closeCalled, loopv, fsv, spawnedAt, extv >>

\* The 15 s timer fires: the promise is rejected with "Timed out waiting for
\* Firefox BiDi endpoint".
SP_Timer ==
    /\ Listening
    /\ spawnTimer
    /\ spawnTimer' = FALSE
    /\ spawnOutcome' = settle(spawnOutcome, "timeout")
    /\ spawnEvents' = Append(spawnEvents, "timeout")
    /\ now' = spawnedAt + SPAWN_TIMEOUT
    /\ now' <= TIMEOUT
    /\ UNCHANGED << pc, exitCode, out, conn, inputs, listener, extProc, sess, browser, pagev,
                    spawnv, loopv, fsv, spawnedAt, extv >>

\* const { proc, wsUrl } = await spawnHeadlessFirefox(); firefoxProc = proc
\* the await resumes once the promise is settled; a rejection is caught nowhere.
CT_SpawnWait ==
    /\ tool = "firefox-content"
    /\ pc = "ct_spawn_wait"
    /\ spawnOutcome \notin {"idle", "pending"}
    /\ CASE spawnOutcome = "listening" ->
               /\ firefoxProc' = TRUE
               /\ pc' = "ct_ws_connect"
               /\ UNCHANGED << exitCode, out >>
         [] spawnOutcome = "exited" ->
               /\ Uncaught("Firefox exited with code")
               /\ UNCHANGED firefoxProc
         [] spawnOutcome = "timeout" ->
               /\ Uncaught("Timed out waiting for Firefox BiDi endpoint")
               /\ UNCHANGED firefoxProc
    /\ UNCHANGED << now, conn, inputs, listener, extProc, sess, browser, pagev,
                    proc, nSpawned, killSent, closeCalled, loopv, fsv, spawnedAt, racev, extv >>

\* browser = await puppeteer.connect({ browserWSEndpoint: wsUrl + "/session" }),
\* in the catch block: a rejection is caught nowhere.
CT_WsConnect ==
    /\ tool = "firefox-content"
    /\ pc = "ct_ws_connect"
    /\ \E d \in AwaitDelays : Takes(d)
    /\ \/ /\ sess' = [sess EXCEPT !["spawned"] = "open"]
          /\ browser' = "spawned"
          /\ pc' = "ct_ws_pages"
          /\ UNCHANGED << exitCode, out >>
       \/ /\ Uncaught("Error")
          /\ UNCHANGED << sess, browser >>
    /\ UNCHANGED << conn, inputs, listener, extProc, pagev, spawnv, loopv, fsv >>
    /\ UNCHANGED << spawnedAt, racev, extv >>

\* const pages = await browser.pages(), which may reject: pages[0], or, when
\* the browser reports no page, the second operand of pages[0] || ...
CT_WsPages ==
    /\ tool = "firefox-content"
    /\ pc = "ct_ws_pages"
    /\ \E d \in AwaitDelays : Takes(d)
    /\ \/ /\ page' = 1
          /\ pc' = "ct_goto"
          /\ UNCHANGED << exitCode, out >>
       \/ /\ pc' = "ct_ws_newpage"
          /\ UNCHANGED << page, exitCode, out >>
       \/ /\ Uncaught("Error")
          /\ UNCHANGED page
    /\ UNCHANGED << conn, inputs, listener, extProc, sess, browser,
                    opStarted, thrown, ownTab, spawnv, loopv, fsv >>
    /\ UNCHANGED << spawnedAt, racev, extv >>

\* page = ... || (await browser.newPage()) on the spawned browser, in the
\* catch block: a rejection is caught nowhere.
CT_WsNewPage ==
    /\ tool = "firefox-content"
    /\ pc = "ct_ws_newpage"
    /\ \E d \in AwaitDelays : Takes(d)
    /\ \/ /\ ownTab' = TRUE
          /\ page' = 1
          /\ pc' = "ct_goto"
          /\ UNCHANGED << exitCode, out >>
       \/ /\ Uncaught("Error")
          /\ UNCHANGED << ownTab, page >>
    /\ UNCHANGED << conn, inputs, listener, extProc, sess, browser,
                    opStarted, thrown, spawnv, loopv, fsv >>
    /\ UNCHANGED << spawnedAt, racev, extv >>

\* How long a navigation may take when it ends before the 15 s race timer.
NavDelays == {1000}

\* try { await Promise.race([page.goto(url, ...), 15 s timer]).catch(() => {})
CT_Goto ==
    /\ tool = "firefox-content"
    /\ pc = "ct_goto"
    /\ opStarted' = TRUE
    /\ \E d \in NavDelays \cup {NAV_TIMEOUT} : Takes(d)
    /\ pc' = "ct_eval"
    /\ UNCHANGED << exitCode, out, conn, inputs, listener, extProc, sess, browser,
                    page, thrown, ownTab, spawnv, loopv, fsv >>
    /\ UNCHANGED << spawnedAt, racev, extv >>

\* page.evaluate, Readability, turndown and the printing: done, or an error
\* thrown on the way to the finally block.
CT_Eval ==
    /\ tool = "firefox-content"
    /\ pc = "ct_eval"
    /\ \E d \in AwaitDelays : Takes(d)
    /\ \/ thrown' = FALSE /\ out' = out \cup {<<"URL, title and content">>}
       \/ thrown' = TRUE /\ UNCHANGED out
    /\ pc' = "ct_close_page"
    /\ UNCHANGED << exitCode, conn, inputs, listener, extProc, sess, browser,
                    page, opStarted, ownTab, spawnv, loopv, fsv >>
    /\ UNCHANGED << spawnedAt, racev, extv >>

\* finally { try { await page.close() } catch {}
CT_ClosePage ==
    /\ tool = "firefox-content"
    /\ pc = "ct_close_page"
    /\ \E d \in AwaitDelays : Takes(d)
    /\ \/ ownTab' = FALSE
       \/ UNCHANGED ownTab
    /\ pc' = "ct_release"
    /\ UNCHANGED << exitCode, out, conn, inputs, listener, extProc, sess, browser,
                    page, opStarted, thrown, spawnv, loopv, fsv >>
    /\ UNCHANGED << spawnedAt, racev, extv >>

\* A cleanup that treats every session as spawned.
weSpawnedItAlways == TRUE

\* if (firefoxProc)
weSpawnedIt == firefoxProc

\* browser.close() asks the browser the session is to to quit.
BrowserQuits(b) ==
    /\ proc' = IF b = "spawned" /\ proc = "running" THEN "exited" ELSE proc
    /\ extProc' = IF b = "existing" THEN "terminated" ELSE extProc
    /\ listener' = IF b = listener THEN "none" ELSE listener

\* if (firefoxProc) { try { await browser.close() } catch {} ...
\* else { try { await browser.disconnect() } catch {} }
CT_Release ==
    /\ tool = "firefox-content"
    /\ pc = "ct_release"
    /\ \E d \in AwaitDelays : Takes(d)
    /\ IF weSpawnedIt
       THEN /\ closeCalled' = browser
            /\ \/ /\ sess' = [sess EXCEPT ![browser] = "closed"]
                  /\ BrowserQuits(browser)
               \/ UNCHANGED << sess, proc, extProc, listener >>
            /\ pc' = "ct_kill"
       ELSE /\ sess' = [sess EXCEPT ![browser] = "disconnected"]
            /\ pc' = "ct_end"
            /\ UNCHANGED << closeCalled, proc, extProc, listener >>
    /\ UNCHANGED << exitCode, out, conn, inputs, browser, pagev,
                    nSpawned, firefoxProc, killSent, loopv, fsv >>
    /\ UNCHANGED << spawnedAt, racev, extv >>

\* ... try { process.kill(-firefoxProc.pid, "SIGTERM") } catch {} }
\* (with firefoxProc null the property access throws and nothing is signalled).
CT_Kill ==
    /\ tool = "firefox-content"
    /\ pc = "ct_kill"
    /\ IF firefoxProc
       THEN /\ killSent' = TRUE
            /\ proc' = IF proc = "running" THEN "terminated" ELSE proc
       ELSE UNCHANGED << killSent, proc >>
    /\ pc' = "ct_end"
    /\ UNCHANGED << now, exitCode, out, conn, inputs, listener, extProc, sess, browser,
                    pagev, nSpawned, firefoxProc, closeCalled, loopv, fsv >>
    /\ UNCHANGED << spawnedAt, racev, extv >>

\* After the finally block: the error goes on uncaught, or process.exit(0).
CT_End ==
    /\ tool = "firefox-content"
    /\ pc = "ct_end"
    /\ IF thrown THEN Uncaught("Error") ELSE Exit(0, {})
    /\ UNCHANGED << now, conn, inputs, listener, extProc, sess, browser, pagev,
                    spawnv, loopv, fsv >>
    /\ UNCHANGED << spawnedAt, racev, extv >>

\* The awaits of firefox-content that no timer bounds.
UnboundedAwaits ==
    {"ct_newpage", "ct_ws_connect", "ct_ws_pages", "ct_ws_newpage", "ct_eval",
     "ct_close_page", "ct_release"}

\* The await the script is at can last until time t: no timer bounds it, or
\* the timer that does fires no earlier.
StillWaitingAt(t) ==
    \/ pc \in UnboundedAwaits
    \/ pc = "ct_connect" /\ cres = "pending" /\ \A o \in connect(hs) : cstart + o.at >= t
    \/ pc = "ct_spawn_wait" /\ spawnOutcome = "pending" /\ spawnedAt + SPAWN_TIMEOUT >= t
    \/ pc = "ct_goto" /\ now + NAV_TIMEOUT >= t

\* setTimeout(() => { console.error(...); process.exit(1) }, TIMEOUT).unref(),
\* armed when the script starts: it fires 60 s later, whatever await the
\* script is at then.
GlobalTimeout ==
    /\ tool = "firefox-content"
    /\ now <= TIMEOUT
    /\ StillWaitingAt(TIMEOUT)
    /\ now' = TIMEOUT
    /\ Exit(1, {<<"Timeout after 60s">>})
    /\ UNCHANGED << conn, inputs, listener, extProc, sess, browser, pagev,
                    spawnv, loopv, fsv >>
    /\ UNCHANGED << spawnedAt, racev, extv >>

Next ==
    \/ ConnectSettle
    \/ WB_Begin \/ WB_Connect \/ WB_Pages \/ WB_Tree \/ WB_Op \/ WB_Finally
    \/ NAV_Begin \/ NAV_Connect \/ NAV_NewPage \/ NAV_Pages \/ NAV_Goto \/ NAV_Disconnect
    \/ ST_Begin \/ ST_Probe \/ ST_Find \/ ST_Sync \/ ST_Prefs \/ ST_Spawn
    \/ BrowserReady \/ ST_Loop \/ ST_Wait \/ ST_After
    \/ CT_Begin \/ CT_Connect \/ CT_NewPage \/ CT_Spawn
    \/ SP_Line \/ SP_Exit \/ SP_Timer \/ CT_SpawnWait
    \/ CT_WsConnect \/ CT_WsPages \/ CT_WsNewPage \/ CT_Goto \/ CT_Eval \/ CT_ClosePage
    \/ CT_Release \/ CT_Kill \/ CT_End \/ GlobalTimeout

Spec == Init /\ [][Next]_vars


(***************************************************************************)
(* The profile provisioner on its own: syncProfile, then disableSyncPrefs  *)
(* twice, from every source profile and every prior cache directory built  *)
(* from the paths below.                                                   *)
(***************************************************************************)
SrcPaths ==
    { << <<"cookies", ".sqlite">> >>, << <<"lock">> >>,
      << <<"cache2">>, <<"entries">> >>, << <<"places", ".sqlite-wal">> >> }

DestPaths ==
    { << <<"cookies", ".sqlite">> >>, << <<"lock">> >>,
      << <<"cache2">>, <<"entries">> >>, << <<"sessionstore", ".jsonlz4">> >> }

UserJsContents ==
    { <<"// mine">>, <<"// mine", NoNewline>>, syncPrefs,
      <<"user_pref(\"identity.fxaccounts.enabled\", true);">> }

\* Every directory with files at some of the paths, each with one of the contents.
Trees(paths, contents) == UNION {[S -> contents] : S \in SUBSET paths}

\* A directory and, maybe, a user.js in it.
WithUserJs(dir, contents) ==
    {dir} \cup {[p \in DOMAIN dir \cup {USER_JS} |-> IF p = USER_JS THEN c ELSE dir[p]] :
                    c \in contents}

SrcProfiles ==
    {NoProfile} \cup
    {[found |-> TRUE, files |-> f] :
        f \in UNION {WithUserJs(d, {<<"// mine">>, <<"// mine", NoNewline>>}) :
                      d \in Trees(SrcPaths, {<<"user data">>})}}

CacheDirs ==
    UNION {WithUserJs(d, UserJsContents) :
              d \in Trees(DestPaths, {<<"user data">>, <<"cached data">>})}

\* No tool runs in the profile specification.
NoTool ==
    /\ tool = "none" /\ argv = <<>> /\ pc = "exited" /\ now = 0 /\ exitCode = 0
    /\ out = {} /\ listener = "none" /\ listenedAtStart = FALSE /\ extProc = "none"
    /\ pages = <<>> /\ tree = {} /\ hs = NoHandshake /\ cstart = 0 /\ cres = "idle"
    /\ abandoned = {} /\ strays = {}
    /\ sess = [b \in {"existing", "spawned"} |-> "none"] /\ browser = "none"
    /\ page = NoPage /\ opStarted = FALSE /\ thrown = FALSE /\ ownTab = FALSE
    /\ firefoxBin = TRUE /\ proc = "none" /\ nSpawned = 0 /\ firefoxProc = FALSE
    /\ killSent = FALSE /\ closeCalled = "none" /\ i = 0 /\ connected = FALSE
    /\ nAttempts = 0 /\ spawnedAt = 0 /\ spawnOutcome = "idle" /\ spawnEvents = <<>>
    /\ spawnTimer = FALSE

InitProfile ==
    /\ NoTool
    /\ src \in SrcProfiles
    /\ cache \in CacheDirs
    /\ cache0 = cache
    /\ cacheDir = TRUE
    /\ synced = FALSE
    /\ fsPc = "start"
    /\ NoLookup
    /\ NoNotify
    /\ NoSandbox
    /\ NoPencil

\* syncProfile(dest)
PF_syncProfile ==
    /\ fsPc = "start"
    /\ LET r == syncProfile(cache, src)
       IN /\ cache' = r.profileDir
          /\ synced' = r.synced
    /\ cache0' = cache
    /\ cacheDir' = mkdirP(cacheDir)
    /\ fsPc' = "synced"
    /\ UNCHANGED << procVars, src, extv >>

\* disableSyncPrefs(dest), a first and a second time
PF_disableSyncPrefs ==
    /\ fsPc \in {"synced", "prefs"}
    /\ cache' = disableSyncPrefs(cache)
    /\ cache0' = cache
    /\ fsPc' = IF fsPc = "synced" THEN "prefs" ELSE "prefs twice"
    /\ UNCHANGED << procVars, src, cacheDir, synced, extv >>

NextProfile == PF_syncProfile \/ PF_disableSyncPrefs

SpecProfile == InitProfile /\ [][NextProfile]_vars


(***************************************************************************)
(* Launching with a named profile: the name is looked up; without a match  *)
(* the launch fails with ProfileNotFound and the available names, and no   *)
(* process is started.                                                     *)
(***************************************************************************)
MaxRows == 2

ProfileNames == {"Work", "Personal"}
ProfilePaths == {"Profiles/a", "Profiles/b"}
ProfileRows == [name : ProfileNames, path : ProfilePaths]

RowLists == UNION {[1..n -> ProfileRows] : n \in 0..MaxRows}

\* Two databases and a file that is none.
Registries ==
    {[groups |-> g,
      files |-> << [name |-> <<"groups1", ".sqlite">>, readable |-> TRUE, rows |-> r1],
                   [name |-> <<"notes", ".txt">>, readable |-> TRUE,
                    rows |-> << [name |-> "Work", path |-> "Profiles/a"] >>],
                   [name |-> <<"groups2", ".sqlite">>, readable |-> ok2, rows |-> r2] >>] :
        g \in BOOLEAN, ok2 \in BOOLEAN, r1 \in RowLists, r2 \in RowLists}

InitLookup ==
    /\ NoTool
    /\ NoProvisioning
    /\ NoNotify
    /\ NoSandbox
    /\ NoPencil
    /\ registry \in Registries
    /\ onDisk \in SUBSET ProfilePaths
    /\ wanted \in ProfileNames
    /\ lkPc = "start"
    /\ lkResult = NotFound
    /\ lkAvailable = <<>>
    /\ lkLaunched = FALSE

\* findProfileByName(name)
LK_Find ==
    /\ lkPc = "start"
    /\ lkResult' = findProfileByName(wanted, registry, onDisk)
    /\ lkPc' = "looked up"
    /\ UNCHANGED << procVars, fsVars, registry, onDisk, wanted, lkAvailable, lkLaunched,
                    notifyVars, sandboxVars, pencilVars >>

\* No match: the launch fails with ProfileNotFound{available: listProfileNames()}.
LK_NotFound ==
    /\ lkPc = "looked up"
    /\ ~lkResult.found
    /\ lkAvailable' = listProfileNames(registry, onDisk)
    /\ lkPc' = "ProfileNotFound"
    /\ UNCHANGED << procVars, fsVars, registry, onDisk, wanted, lkResult, lkLaunched,
                    notifyVars, sandboxVars, pencilVars >>

\* A match: the browser is launched on a copy of the profile found.
LK_Launch ==
    /\ lkPc = "looked up"
    /\ lkResult.found
    /\ lkLaunched' = TRUE
    /\ lkPc' = "launched"
    /\ UNCHANGED << procVars, fsVars, registry, onDisk, wanted, lkResult, lkAvailable,
                    notifyVars, sandboxVars, pencilVars >>

NextLookup == LK_Find \/ LK_NotFound \/ LK_Launch

SpecLookup == InitLookup /\ [][NextLookup]_vars


(***************************************************************************)
(* The notify-on-idle extension of pi: a desktop notification and a        *)
(* terminal bell 2 s after the agent went idle, unless the terminal has    *)
(* the focus.  Focus is tracked through xterm focus reporting (mode 1004). *)
(***************************************************************************)
DEBOUNCE_MS == 2000

\* Bounds: the largest pendingCount, the number of writes and commands
\* logged, the time modelled and the step of the clock.
MaxPending == 2
MaxLog == 2
MaxClock == 4000
Tick == 1000

\* What a chunk read from stdin is made of: the focus-in sequence ESC [ I,
\* the focus-out sequence ESC [ O, other input.
FOCUS_IN == "ESC[I"
FOCUS_OUT == "ESC[O"
ChunkParts == {FOCUS_IN, FOCUS_OUT, "text"}
Chunks == UNION {[1..n -> ChunkParts] : n \in 1..2}

\* str.includes(part)
Includes(chunk, part) == \E k \in 1..Len(chunk) : chunk[k] = part

\* onStdinData(data): the new value of hasFocus
onStdinData(focus, chunk) ==
    IF Includes(chunk, FOCUS_IN) THEN TRUE
    ELSE IF Includes(chunk, FOCUS_OUT) THEN FALSE
    ELSE focus

\* count > 1 ? `${count} tasks completed` : "Task completed"
Message(count) ==
    IF count > 1 THEN <<count, "tasks completed">> ELSE <<"Task completed">>

\* The notifier of the platform, none on other platforms.
Notifier(platform) ==
    CASE platform = "darwin" -> "terminal-notifier"
      [] platform = "linux" -> "notify-send"
      [] OTHER -> "none"

InitNotify ==
    /\ NoTool
    /\ NoProvisioning
    /\ NoLookup
    /\ NoSandbox
    /\ NoPencil
    /\ pendingCount = 0
    /\ debounceTimer = NoTimer
    /\ hasFocus = TRUE
    /\ focusReportingEnabled = FALSE
    /\ timers = {}
    /\ clock = 0
    /\ stdinHandlers = 0
    /\ isTTY \in BOOLEAN
    /\ isRaw \in BOOLEAN
    /\ os \in {"darwin", "linux", "win32"}
    /\ written = <<>>
    /\ executed = <<>>
    /\ inflight = 0
    /\ lastFire = NeverFired
    /\ nPc = "loaded"
    /\ NoHistory

others == << procVars, fsVars, lookupVars, sandboxVars, pencilVars >>
env == << isTTY, isRaw, os, nPc >>
history == << lastEnd, burst, unreported, attempts, sinceStart, discarded, focusAtEnd,
             lastFocusEvent >>

\* enableFocusReporting()
enableFocusReporting ==
    IF focusReportingEnabled \/ ~isTTY \/ ~isRaw
    THEN UNCHANGED << stdinHandlers, written, focusReportingEnabled >>
    ELSE /\ stdinHandlers' = stdinHandlers + 1
         /\ written' = Append(written, "ESC[?1004h")
         /\ focusReportingEnabled' = TRUE

\* pi.on("session_start"): if (!ctx.hasUI) return; enableFocusReporting()
N_SessionStart ==
    /\ nPc = "loaded"
    /\ Len(written) < MaxLog
    /\ \E hasUI \in BOOLEAN :
          IF ~hasUI
          THEN UNCHANGED << stdinHandlers, written, focusReportingEnabled >>
          ELSE enableFocusReporting
    /\ UNCHANGED << pendingCount, debounceTimer, hasFocus, timers, clock, executed,
                    inflight, lastFire, env, history, others >>

\* pi.on("session_shutdown"): disableFocusReporting()
N_SessionShutdown ==
    /\ nPc = "loaded"
    /\ Len(written) < MaxLog
    /\ IF ~focusReportingEnabled
       THEN UNCHANGED << stdinHandlers, written, focusReportingEnabled >>
       ELSE /\ written' = Append(written, "ESC[?1004l")
            /\ stdinHandlers' = stdinHandlers - 1
            /\ focusReportingEnabled' = FALSE
    /\ UNCHANGED << pendingCount, debounceTimer, hasFocus, timers, clock, executed,
                    inflight, lastFire, env, history, others >>

\* The focus event a chunk ends with ("in" or "out"), or the one before when
\* the chunk carries none: the terminal sends the sequences in the order the
\* focus changed.
RECURSIVE LastFocusEvent(_, _)
LastFocusEvent(before, chunk) ==
    IF chunk = <<>> THEN before
    ELSE LET last == chunk[Len(chunk)]
         IN IF last = FOCUS_IN THEN "in"
            ELSE IF last = FOCUS_OUT THEN "out"
            ELSE LastFocusEvent(before, SubSeq(chunk, 1, Len(chunk) - 1))

\* A chunk arrives on stdin while the handler is registered.
N_StdinData ==
    /\ nPc = "loaded"
    /\ stdinHandlers > 0
    /\ \E chunk \in Chunks :
          /\ hasFocus' = onStdinData(hasFocus, chunk)
          /\ lastFocusEvent' = LastFocusEvent(lastFocusEvent, chunk)
    /\ UNCHANGED << pendingCount, debounceTimer, focusReportingEnabled, timers, clock,
                    stdinHandlers, written, executed, inflight, lastFire, env, others >>
    /\ UNCHANGED << lastEnd, burst, unreported, attempts, sinceStart, discarded,
                    focusAtEnd >>

\* An agent_end handler that arms a new timer without clearing the old one.
armWithoutClearing(due) ==
    /\ timers' = timers \cup {due}
    /\ debounceTimer' = due

\* if (debounceTimer) clearTimeout(debounceTimer); debounceTimer = setTimeout(..., DEBOUNCE_MS)
arm(due) ==
    /\ timers' = (timers \ {debounceTimer}) \cup {due}
    /\ debounceTimer' = due

\* pi.on("agent_end")
N_AgentEnd ==
    /\ nPc = "loaded"
    /\ pendingCount < MaxPending
    /\ pendingCount' = pendingCount + 1
    /\ arm(clock + DEBOUNCE_MS)
    /\ lastEnd' = clock
    /\ burst' = IF burst > 0 /\ clock - lastEnd < DEBOUNCE_MS THEN burst + 1 ELSE 1
    /\ unreported' = unreported + 1
    /\ attempts' = 0
    /\ sinceStart' = sinceStart + 1
    /\ focusAtEnd' = hasFocus
    /\ UNCHANGED << hasFocus, focusReportingEnabled, clock, stdinHandlers, written,
                    executed, inflight, lastFire, env, discarded, lastFocusEvent, others >>

\* A cancellation that clears the timer and keeps the count.
cancelKeepingCount ==
    IF debounceTimer # NoTimer
    THEN /\ timers' = timers \ {debounceTimer}
         /\ debounceTimer' = NoTimer
         /\ UNCHANGED pendingCount
    ELSE UNCHANGED << timers, debounceTimer, pendingCount >>

\* if (debounceTimer) { clearTimeout(debounceTimer); debounceTimer = null; pendingCount = 0 }
cancel ==
    IF debounceTimer # NoTimer
    THEN /\ timers' = timers \ {debounceTimer}
         /\ debounceTimer' = NoTimer
         /\ pendingCount' = 0
    ELSE UNCHANGED << timers, debounceTimer, pendingCount >>

\* pi.on("agent_start"): a pending notification is cancelled
N_AgentStart ==
    /\ nPc = "loaded"
    /\ cancel
    /\ burst' = 0
    /\ unreported' = 0
    /\ sinceStart' = 0
    /\ discarded' = pendingCount
    /\ UNCHANGED << hasFocus, focusReportingEnabled, clock, stdinHandlers, written,
                    executed, inflight, lastFire, env, lastEnd, attempts, focusAtEnd,
                    lastFocusEvent, others >>

\* A sendNotification that never sends.
sendNotificationNever(count) == UNCHANGED << executed, inflight, written >>

\* A sendNotification that does not look at the focus.
sendNotificationAlways(count) ==
    IF Notifier(os) # "none"
    THEN /\ executed' = Append(executed, [cmd |-> Notifier(os), message |-> Message(count)])
         /\ inflight' = inflight + 1
         /\ UNCHANGED written
    ELSE /\ written' = Append(written, "BEL")
         /\ UNCHANGED << executed, inflight >>

\* sendNotification(count) up to its first await: nothing when the terminal
\* is focused; else the notifier is started, or, on a platform without one,
\* the bell is written straight away.
sendNotification(count) ==
    IF hasFocus
    THEN UNCHANGED << executed, inflight, written >>
    ELSE IF Notifier(os) # "none"
         THEN /\ executed' = Append(executed, [cmd |-> Notifier(os), message |-> Message(count)])
              /\ inflight' = inflight + 1
              /\ UNCHANGED written
         ELSE /\ written' = Append(written, "BEL")
              /\ UNCHANGED << executed, inflight >>

\* The debounce timer fires: count = pendingCount; pendingCount = 0;
\* debounceTimer = null; await sendNotification(count)
N_TimerFires ==
    /\ nPc = "loaded"
    /\ Len(written) < MaxLog
    /\ Len(executed) < MaxLog
    /\ \E due \in timers :
          /\ due <= clock
          /\ timers' = timers \ {due}
    /\ pendingCount' = 0
    /\ debounceTimer' = NoTimer
    /\ lastFire' = [ran |-> TRUE, focus |-> hasFocus, count |-> pendingCount]
    /\ sendNotification(pendingCount)
    /\ attempts' = attempts + 1
    /\ unreported' = 0
    /\ UNCHANGED << hasFocus, focusReportingEnabled, clock, stdinHandlers, env, lastEnd,
                    burst, sinceStart, discarded, focusAtEnd, lastFocusEvent, others >>

\* pi.exec(...) completes and sendNotification goes on: process.stdout.write("\x07");
\* when the command could not be run the await throws and no bell is written.
N_ExecDone ==
    /\ nPc = "loaded"
    /\ inflight > 0
    /\ Len(written) < MaxLog
    /\ inflight' = inflight - 1
    /\ \/ written' = Append(written, "BEL")
       \/ UNCHANGED written
    /\ UNCHANGED << pendingCount, debounceTimer, hasFocus, focusReportingEnabled, timers,
                    clock, stdinHandlers, executed, lastFire, env, history, others >>

\* Time passes, up to the next timer that is due.
N_Tick ==
    /\ nPc = "loaded"
    /\ clock < MaxClock
    /\ \A due \in timers : due > clock
    /\ LET next == clock + Tick
           dues == {due \in timers : due < next}
       IN clock' = IF dues = {} THEN next ELSE CHOOSE d \in dues : \A e \in dues : d <= e
    /\ UNCHANGED << pendingCount, debounceTimer, hasFocus, focusReportingEnabled, timers,
                    stdinHandlers, written, executed, inflight, lastFire, env, history,
                    others >>

NextNotify ==
    \/ N_SessionStart \/ N_SessionShutdown \/ N_StdinData
    \/ N_AgentEnd \/ N_AgentStart \/ N_TimerFires \/ N_ExecDone \/ N_Tick

SpecNotify == InitNotify /\ [][NextNotify]_vars

\* The same with the event loop's guarantees: time goes on, and the callback
\* of a timer that is due is run.
SpecNotifyFair == SpecNotify /\ WF_vars(N_Tick) /\ WF_vars(N_TimerFires)


(***************************************************************************)
(* run-sandboxed.sh <input_file> [output_dir] [--no-cleanup]: converts a   *)
(* document to markdown, then lets pi clean the markdown up.               *)
(***************************************************************************)

\* The input files tried: their names as the parts between the dots.
InputFiles ==
    { <<"report", "pdf">>, <<"sheet", "xlsx">>, <<"SHEET", "XLSX">>, <<"old", "Xls">>,
      <<"archive", "tar", "gz">>, <<"README">> }

SandboxArgs ==
    {<<>>} \cup {<<f>> : f \in InputFiles}
           \cup {<<f, d>> : f \in InputFiles, d \in {<<"out">>, <<"--no-cleanup">>}}
           \cup {<<f, <<"out">>, <<"--no-cleanup">>>> : f \in InputFiles}

\* tr '[:upper:]' '[:lower:]' on the extensions tried
Lower(word) ==
    CASE word = "XLSX" -> "xlsx"
      [] word = "Xls" -> "xls"
      [] word = "SHEET" -> "sheet"
      [] word = "README" -> "readme"
      [] OTHER -> word

\* FILE_EXT="${INPUT_FILE##*.}": what follows the last dot of the name (the
\* whole path when it has no dot, here the name).
FileExt(file) == file[Len(file)]

\* [[ "$FILE_EXT_LOWER" == "xlsx" || "$FILE_EXT_LOWER" == "xls" ]]
IsSpreadsheet(file) == Lower(FileExt(file)) \in {"xlsx", "xls"}

\* The conversion command for a file: unsandboxed with DYLD_LIBRARY_PATH for a
\* spreadsheet, under sandbox-exec with the (deny network*) profile otherwise.
Conversion(file) ==
    IF IsSpreadsheet(file)
    THEN [cmd |-> "convert.py", wrapper |-> "none", network |-> "allowed"]
    ELSE [cmd |-> "convert.py", wrapper |-> "sandbox-exec", network |-> "denied"]

INPUT_FILE == sbArgs[1]
OUTPUT_DIR == IF Len(sbArgs) >= 2 THEN sbArgs[2] ELSE <<".">>

InitSandbox ==
    /\ NoTool
    /\ NoProvisioning
    /\ NoLookup
    /\ NoNotify
    /\ NoPencil
    /\ sbArgs \in SandboxArgs
    /\ sbInputExists \in BOOLEAN
    /\ sbPc = "parse"
    /\ sbExit = Running
    /\ sbNoCleanup = FALSE
    /\ sbProfile = FALSE
    /\ sbPiDir \in BOOLEAN
    /\ sbSteps = <<>>

rest == << procVars, fsVars, lookupVars, notifyVars, pencilVars >>

\* exit <status>
SbExit(status) == sbPc' = "exited" /\ sbExit' = status

\* Argument parsing: usage without arguments; NO_CLEANUP when any argument is
\* --no-cleanup.
SB_Parse ==
    /\ sbPc = "parse"
    /\ IF Len(sbArgs) < 1
       THEN SbExit(1) /\ UNCHANGED sbNoCleanup
       ELSE /\ sbNoCleanup' = \E k \in 1..Len(sbArgs) : sbArgs[k] = <<"--no-cleanup">>
            /\ sbPc' = "validate"
            /\ UNCHANGED sbExit
    /\ UNCHANGED << sbArgs, sbInputExists, sbProfile, sbPiDir, sbSteps, rest >>

\* [[ ! -f "$INPUT_FILE" ]] && exit 1
SB_Validate ==
    /\ sbPc = "validate"
    /\ IF ~sbInputExists
       THEN SbExit(1)
       ELSE sbPc' = "resolve" /\ UNCHANGED sbExit
    /\ UNCHANGED << sbArgs, sbInputExists, sbNoCleanup, sbProfile, sbPiDir, sbSteps, rest >>

\* OUTPUT_DIR="$(mkdir -p "$OUTPUT_DIR" && cd "$OUTPUT_DIR" && pwd)": mkdir
\* takes a directory beginning with a dash for an option and fails, and set -e
\* ends the script; then the sandbox profile is written to a temporary file.
SB_Resolve ==
    /\ sbPc = "resolve"
    /\ IF OUTPUT_DIR = <<"--no-cleanup">>
       THEN SbExit(1) /\ UNCHANGED sbProfile
       ELSE /\ sbProfile' = TRUE
            /\ sbPc' = "convert"
            /\ UNCHANGED sbExit
    /\ UNCHANGED << sbArgs, sbInputExists, sbNoCleanup, sbPiDir, sbSteps, rest >>

\* [1/2] the conversion, which succeeds or fails; on failure the profile is
\* removed and the script exits 1.
SB_Convert ==
    /\ sbPc = "convert"
    /\ sbSteps' = Append(sbSteps, Conversion(INPUT_FILE))
    /\ \/ sbPc' = "converted" /\ UNCHANGED << sbExit, sbProfile >>
       \/ SbExit(1) /\ sbProfile' = FALSE
    /\ UNCHANGED << sbArgs, sbInputExists, sbNoCleanup, sbPiDir, rest >>

\* rm -f "$CONVERT_PROFILE"; the expected markdown file is there or not; with
\* --no-cleanup the script is done.
SB_Output ==
    /\ sbPc = "converted"
    /\ sbProfile' = FALSE
    /\ \/ SbExit(1)
       \/ IF sbNoCleanup THEN SbExit(0) ELSE sbPc' = "cleanup" /\ UNCHANGED sbExit
    /\ UNCHANGED << sbArgs, sbInputExists, sbNoCleanup, sbPiDir, sbSteps, rest >>

\* cp sandbox.json "$OUTPUT_DIR/.pi/" (creating .pi when missing), then
\* [2/2] pi --sandbox --print -p "$CLEANUP_TASK", whose failure is only
\* reported; rm -rf "$OUTPUT_DIR/.pi"; done.
SB_Cleanup ==
    /\ sbPc = "cleanup"
    /\ \E ok \in BOOLEAN :
          sbSteps' = Append(sbSteps, [cmd |-> IF ok THEN "pi cleanup" ELSE "pi cleanup failed",
                                      wrapper |-> "pi --sandbox", network |-> "whitelist"])
    /\ sbPiDir' = FALSE
    /\ SbExit(0)
    /\ UNCHANGED << sbArgs, sbInputExists, sbNoCleanup, sbProfile, rest >>

NextSandbox ==
    SB_Parse \/ SB_Validate \/ SB_Resolve \/ SB_Convert \/ SB_Output \/ SB_Cleanup

SpecSandbox == InitSandbox /\ [][NextSandbox]_vars


(***************************************************************************)
(* The pencil CLI: main() starts Pencil.app's MCP server as a child        *)
(* process, talks JSON-RPC with it over its stdin and stdout through an    *)
(* MCPClient, makes one tool call and exits.  The server's output reaches  *)
(* the client in chunks; a chunk is a sequence of tokens: the text of a    *)
(* complete JSON-RPC response, other text, or a line break.                *)
(***************************************************************************)
REQUEST_TIMEOUT == 60000
WS_WAIT == 1000

\* Bounds: the tokens in a chunk and in the incomplete line kept, the time
\* modelled (a request sent after the 1 s wait times out at 61 s) and the
\* step of the clock.
MaxChunk == 1
MaxBuffer == 1
MaxPClock == 61000
PTick == 60000

\* The commands modelled: one without required options, one that requires
\* --topic, one that main() does not know, and the calls for help.
KnownCommands == {"state", "guidelines"}
HelpCommands == {"", "help"}
Required(command) == IF command = "guidelines" THEN {"topic"} ELSE {}
PencilArgs ==
    {[command |-> c, options |-> o] :
        c \in KnownCommands \cup HelpCommands \cup {"bogus"}, o \in SUBSET {"topic"}}

\* The text of a response, by id and kind, as the server may write it.
\* A response carries an error, a result, or neither (or a result of null).
Responses ==
    {r \in [id : {1, 2}, error : BOOLEAN, result : BOOLEAN] : ~(r.error /\ r.result)}
Junk == [id |-> 0, error |-> FALSE, result |-> FALSE]
Newline == [id |-> -1, error |-> FALSE, result |-> FALSE]
Tokens == Responses \cup {Junk, Newline}
StdoutChunks == UNION {[1..n -> Tokens] : n \in 1..MaxChunk}

\* this.buffer += data; lines = this.buffer.split("\n"); this.buffer = lines.pop():
\* the complete lines, and the incomplete line that is kept.
RECURSIVE splitLines(_, _)
splitLines(tokens, line) ==
    IF tokens = <<>> THEN [lines |-> <<>>, rest |-> line]
    ELSE IF Head(tokens) = Newline
         THEN LET r == splitLines(Tail(tokens), <<>>)
              IN [lines |-> << line >> \o r.lines, rest |-> r.rest]
         ELSE splitLines(Tail(tokens), Append(line, Head(tokens)))

\* JSON.parse(line): a line is a response when it is the text of one response
\* and nothing else.
JSONparse(line) ==
    IF Len(line) = 1 /\ line[1] \in Responses
    THEN [ok |-> TRUE, id |-> line[1].id, error |-> line[1].error,
          result |-> line[1].result]
    ELSE [ok |-> FALSE, id |-> 0, error |-> FALSE, result |-> FALSE]

Settlement(id, how) == [id |-> id, how |-> how]

\* if (response.error) pending.reject(new Error("MCP Error: ...")) else
\* pending.resolve(response.result): what the request is settled with.
Outcome(response) ==
    IF response.error THEN "MCP Error"
    ELSE IF response.result THEN "result" ELSE "no result"

\* formatResult(result): reading .content of undefined or null throws.
formatResult(result) == IF result = "no result" THEN "TypeError" ELSE "text"

\* A handleLine that leaves the request in pendingRequests.
handleLineKeeping(st, line) ==
    LET response == JSONparse(line)
    IN IF response.ok /\ response.id \in st.pending
       THEN [pending |-> st.pending,
             settled |-> Append(st.settled, Settlement(response.id, Outcome(response)))]
       ELSE st

\* handleLine(line), on st = [pending, settled]: the pending ids and the
\* calls of resolve and reject made so far.
handleLine(st, line) ==
    LET response == JSONparse(line)
    IN IF response.ok /\ response.id \in st.pending
       THEN [pending |-> st.pending \ {response.id},
             settled |-> Append(st.settled, Settlement(response.id, Outcome(response)))]
       ELSE st

\* for (const line of lines) { if (line.trim()) this.handleLine(line); }
RECURSIVE handleLines(_, _)
handleLines(st, lines) ==
    IF lines = <<>> THEN st
    ELSE handleLines(IF Head(lines) = <<>> THEN st ELSE handleLine(st, Head(lines)),
                     Tail(lines))

InitPencil ==
    /\ NoTool
    /\ NoProvisioning
    /\ NoLookup
    /\ NoNotify
    /\ NoSandbox
    /\ pArgs \in PencilArgs
    /\ pListening \in BOOLEAN
    /\ pPc = "start"
    /\ pExit = Running
    /\ mServer = "none"
    /\ mProcess = FALSE
    /\ initialized = FALSE
    /\ requestId = 0
    /\ pendingRequests = {}
    /\ buffer = <<>>
    /\ mTimers = {}
    /\ mClock = 0
    /\ mSent = <<>>
    /\ mSettled = <<>>
    /\ mLines = <<>>

outside == << procVars, fsVars, lookupVars, notifyVars, sandboxVars >>

\* No timer is due: time can pass.
NoMcpTimerDue == \A t \in mTimers : t.due > mClock

\* The request main() is waiting for, 0 when it waits for none.
awaited == IF pPc \in {"initializing", "calling"} THEN requestId ELSE 0

\* close(): if (this.process) { stdin.end(); kill("SIGTERM"); this.process = null }
close ==
    /\ mProcess' = FALSE
    /\ mServer' = IF mProcess /\ mServer = "running" THEN "terminated" ELSE mServer

\* The end of main() through its try or its catch: client.close(); process.exit(code)
closeAndExit(code) ==
    /\ close
    /\ pExit' = code
    /\ pPc' = "exited"

\* The ends of main() inside the switch: process.exit(1)
exitInSwitch ==
    /\ pExit' = 1
    /\ pPc' = "exited"
    /\ UNCHANGED << mServer, mProcess >>

\* sendRequest(method) with the timers in `armed` armed, main() then waiting
\* in `waiting`: the request is registered, written to the server's stdin and
\* its 60 s timer armed.  When the server has ended and its "exit" event is
\* not handled yet, the write fails with EPIPE; no "error" listener is on
\* the stream, so the CLI process ends with status 1 there and then.
sendRequest(method, armed, waiting) ==
    LET id == requestId + 1
    IN /\ requestId' = id
       /\ pendingRequests' = pendingRequests \cup {id}
       /\ mSent' = Append(mSent, [id |-> id, method |-> method, at |-> mClock])
       /\ mTimers' = armed \cup {[due |-> mClock + REQUEST_TIMEOUT, id |-> id]}
       /\ IF mServer = "ended"
          THEN pExit' = 1 /\ pPc' = "exited"
          ELSE pPc' = waiting /\ UNCHANGED pExit

\* main() goes on after the request it awaited was settled (how = "none": it
\* was not): connect() goes on to its 1 s wait, the result is formatted and
\* printed, or the catch block runs (also when formatResult throws).
resume(how, armed) ==
    CASE how = "none" ->
            /\ mTimers' = armed
            /\ UNCHANGED << pPc, pExit, mServer, mProcess, initialized >>
      [] how \in {"result", "no result"} /\ pPc = "initializing" ->
            /\ initialized' = TRUE
            /\ pPc' = "ws wait"
            /\ mTimers' = armed \cup {[due |-> mClock + WS_WAIT, id |-> 0]}
            /\ UNCHANGED << pExit, mServer, mProcess >>
      [] how \in {"result", "no result"} /\ pPc = "calling"
            /\ formatResult(how) = "text" ->
            /\ closeAndExit(0)
            /\ mTimers' = armed
            /\ UNCHANGED initialized
      [] OTHER ->
            /\ closeAndExit(1)
            /\ mTimers' = armed
            /\ UNCHANGED initialized

\* detectPencilPort(): the port of the listening Pencil process that lsof
\* lists, or an error thrown when it lists none.
detectPencilPort == IF pListening THEN "port" ELSE "Could not detect Pencil.app port"

\* The module is loaded (WS_PORT = detectPencilPort(), an error there ends
\* the process with status 1 before main() is called), then main() up to
\* its first wait: help, or new MCPClient() and connect(), which spawns the
\* server and sends initialize.
P_Begin ==
    /\ pPc = "start"
    /\ IF detectPencilPort # "port"
       THEN /\ pExit' = 1
            /\ pPc' = "exited"
            /\ UNCHANGED << mServer, mProcess, requestId, pendingRequests, mSent, mTimers >>
       ELSE IF pArgs.command \in HelpCommands
       THEN /\ pExit' = 0
            /\ pPc' = "exited"
            /\ UNCHANGED << mServer, mProcess, requestId, pendingRequests, mSent, mTimers >>
       ELSE /\ mServer' \in {"running", "spawn failed"}
            /\ mProcess' = TRUE
            /\ sendRequest("initialize", mTimers, "initializing")
    /\ UNCHANGED << pArgs, pListening, initialized, buffer, mClock, mSettled, mLines,
                    outside >>

\* process.on("error"): the server could not be started; connect() rejects.
P_SpawnError ==
    /\ pPc = "initializing"
    /\ mServer = "spawn failed"
    /\ closeAndExit(1)
    /\ UNCHANGED << pArgs, pListening, initialized, requestId, pendingRequests, buffer,
                    mTimers, mClock,
                    mSent, mSettled, mLines, outside >>

\* The server process ends by itself.
P_ServerEnds ==
    /\ pPc \in {"initializing", "ws wait", "calling"}
    /\ mServer = "running"
    /\ mServer' = "ended"
    /\ UNCHANGED << pArgs, pListening, pPc, pExit, mProcess, initialized, requestId,
                    pendingRequests,
                    buffer, mTimers, mClock, mSent, mSettled, mLines, outside >>

\* process.on("exit"): the server has ended; connect() rejects when it has
\* not initialized yet.
P_ServerExit ==
    /\ pPc \in {"initializing", "ws wait", "calling"}
    /\ mServer = "ended"
    /\ mServer' = "exited"
    /\ IF ~initialized
       THEN /\ mProcess' = FALSE
            /\ pExit' = 1
            /\ pPc' = "exited"
       ELSE UNCHANGED << mProcess, pExit, pPc >>
    /\ UNCHANGED << pArgs, pListening, initialized, requestId, pendingRequests, buffer,
                    mTimers, mClock,
                    mSent, mSettled, mLines, outside >>

\* process.stdout.on("data"): a chunk of the server's output arrives.  What
\* the server wrote before it ended is still in the pipe and is delivered
\* after its end, before or after the exit event.
P_Data ==
    /\ pPc \in {"initializing", "ws wait", "calling"}
    /\ mServer \in {"running", "ended", "exited"}
    /\ \E chunk \in StdoutChunks :
          LET split == splitLines(chunk, buffer)
              st == handleLines([pending |-> pendingRequests, settled |-> mSettled],
                                split.lines)
              new == SelectSeq(SubSeq(st.settled, Len(mSettled) + 1, Len(st.settled)),
                               LAMBDA e : e.id = awaited)
          IN /\ Len(split.rest) <= MaxBuffer
             /\ buffer' = split.rest
             /\ mLines' = SelectSeq(split.lines, LAMBDA line : JSONparse(line).ok)
             /\ pendingRequests' = st.pending
             /\ mSettled' = st.settled
             /\ resume(IF new = <<>> THEN "none" ELSE new[1].how, mTimers)
    /\ UNCHANGED << pArgs, pListening, requestId, mClock, mSent, outside >>

\* switch (command): a tool call is sent, or the command is unknown or lacks
\* a required option.
switch(armed) ==
    IF pArgs.command \notin KnownCommands \/ ~(Required(pArgs.command) \subseteq pArgs.options)
    THEN /\ exitInSwitch
         /\ mTimers' = armed
         /\ UNCHANGED << requestId, pendingRequests, mSent >>
    ELSE /\ sendRequest("tools/call", armed, "calling")
         /\ UNCHANGED << mServer, mProcess >>

\* A timer runs: the 1 s wait of connect() is over and main() reaches its
\* switch, or a request has been waiting for 60 s.
P_Timer ==
    /\ pPc \in {"initializing", "ws wait", "calling"}
    /\ \E t \in mTimers :
          /\ t.due <= mClock
          /\ IF t.id = 0
             THEN /\ switch(mTimers \ {t})
                  /\ UNCHANGED << initialized, mSettled >>
             ELSE IF t.id \in pendingRequests
             THEN /\ pendingRequests' = pendingRequests \ {t.id}
                  /\ mSettled' = Append(mSettled, Settlement(t.id, "Request timeout"))
                  /\ resume(IF t.id = awaited THEN "Request timeout" ELSE "none",
                            mTimers \ {t})
                  /\ UNCHANGED << requestId, mSent >>
             ELSE /\ mTimers' = mTimers \ {t}
                  /\ UNCHANGED << pPc, pExit, mServer, mProcess, initialized, requestId,
                                  pendingRequests, mSent, mSettled >>
    /\ UNCHANGED << pArgs, pListening, buffer, mClock, mLines, outside >>

\* Time passes, up to the next timer that is due.
P_Tick ==
    /\ pPc \in {"initializing", "ws wait", "calling"}
    /\ mClock < MaxPClock
    /\ NoMcpTimerDue
    /\ LET next == mClock + PTick
           dues == {t.due : t \in {u \in mTimers : u.due < next}}
       IN mClock' = IF dues = {} THEN next ELSE CHOOSE d \in dues : \A e \in dues : d <= e
    /\ UNCHANGED << pArgs, pListening, pPc, pExit, mServer, mProcess, initialized, requestId,
                    pendingRequests, buffer, mTimers, mSent, mSettled, mLines, outside >>

NextPencil ==
    P_Begin \/ P_SpawnError \/ P_ServerEnds \/ P_ServerExit \/ P_Data \/ P_Timer \/ P_Tick

SpecPencil == InitPencil /\ [][NextPencil]_vars


(***************************************************************************)
(* Claims.                                                                 *)
(***************************************************************************)
ReuseOnlyTools == WithBrowserTools \cup {"firefox-nav"}

\* C1: in the tools that acquire their session with connectOrExit (directly or
\* through withBrowser), once the single connect attempt has failed because
\* nothing listens or because the handshake did not finish before the timeout,
\* the invocation has ended with the two error lines and exit code 1, no page
\* was resolved, no page operation was started and no browser process was spawned.
C1_NoBrowserRunning ==
    ( /\ tool \in ReuseOnlyTools
      /\ cres \in {"refused", "timeout"}
      /\ ~(pc \in {"wb_connect", "nav_connect"}) )
    => /\ pc = "exited"
       /\ exitCode = 1
       /\ <<"Could not connect to Firefox:", cres>> \in out
       /\ <<"Run: firefox-start.js">> \in out
       /\ page = NoPage
       /\ ~opStarted
       /\ nSpawned = 0
       /\ proc = "none"
       /\ nAttempts = 0

\* A withBrowser tool has ended after its handshake with a listening browser
\* did not finish in time.
C1_Witness ==
    /\ tool = "firefox-screenshot"
    /\ listenedAtStart
    /\ cres = "timeout"
    /\ pc = "exited"
    /\ exitCode = 1

\* C2 (as claimed): in firefox-start and firefox-content, run with their
\* arguments, whenever a browser listened at the endpoint when the invocation
\* began, no browser process is ever spawned and the session used is the one to
\* that browser.
C2_NeverSpawnsWhenListening ==
    ( /\ tool \in {"firefox-start", "firefox-content"}
      /\ listenedAtStart )
    => /\ nSpawned = 0
       /\ proc = "none"
       /\ browser \in {"none", "existing"}

\* C3: firefox-content's cleanup goes by ownership.  When the finally block has
\* run for a session to an already-running browser, that session is
\* disconnected, browser.close() was not called, no signal was sent and the
\* browser still runs; when it has run for a spawned browser, browser.close()
\* was called on it, SIGTERM was sent to its process group and it no longer
\* runs.  At no point of the invocation is the already-running browser terminated.
C3_ReleaseByOwnership ==
    tool = "firefox-content" =>
       /\ extProc # "terminated"
       /\ closeCalled # "existing"
       /\ (pc = "ct_end" /\ ~firefoxProc) =>
             /\ browser = "existing"
             /\ sess["existing"] = "disconnected"
             /\ extProc = "running"
             /\ closeCalled = "none"
             /\ ~killSent
             /\ nSpawned = 0
       /\ (pc = "ct_end" /\ firefoxProc) =>
             /\ browser = "spawned"
             /\ closeCalled = "spawned"
             /\ killSent
             /\ proc \in {"exited", "terminated"}

\* The cleanup has run for a session to an already-running browser, and the tab
\* opened by the invocation is closed.
C3_Witness ==
    /\ tool = "firefox-content"
    /\ pc = "ct_end"
    /\ ~firefoxProc
    /\ sess["existing"] = "disconnected"
    /\ ~ownTab
    /\ extProc = "running"

\* C4 (as claimed): once firefox-content holds a spawned headless browser (its
\* endpoint was announced and firefoxProc is set), that process no longer runs
\* when the invocation has ended, whichever way it ended.
C4_SpawnedTerminatedOnEveryExit ==
    ( /\ tool = "firefox-content"
      /\ pc = "exited"
      /\ firefoxProc )
    => proc \in {"exited", "terminated"}

\* C5 (as claimed): when a withBrowser tool has ended after its connection was
\* established, the session is disconnected.
C5_DisconnectedOnEveryExit ==
    ( /\ tool \in WithBrowserTools
      /\ pc = "exited"
      /\ browser # "none" )
    => sess[browser] = "disconnected"

\* C6: firefox-start's wait loop is bounded.  It calls connect() at most 30
\* times; after a successful attempt the probe session is disconnected and no
\* further attempt is made; when it ends without having connected it made
\* exactly 30 attempts, printed the failure line and exited with code 1; while
\* it polls, a step is always possible, so it cannot wait forever (after the
\* loop the script has nothing left to do but end, or be held open).
C6_BoundedWait ==
    tool = "firefox-start" =>
       /\ nAttempts <= MAX_ATTEMPTS
       /\ i <= MAX_ATTEMPTS
       /\ (pc \in {"st_loop", "st_wait"}) => ENABLED Next
       /\ connected =>
             /\ pc \in {"st_after", "held_open", "exited"}
             /\ cres = "session"
             /\ nAttempts = i + 1
             /\ \A b \in DOMAIN sess : sess[b] # "open"
       /\ (pc = "exited" /\ nSpawned > 0 /\ connected) =>
             exitCode = 0
       /\ (pc = "exited" /\ nSpawned > 0 /\ ~connected) =>
             /\ nAttempts = MAX_ATTEMPTS
             /\ exitCode = 1
             /\ <<"Failed to connect to Firefox">> \in out

\* firefox-start has given up after 30 failed attempts.
C6_Witness ==
    /\ tool = "firefox-start"
    /\ pc = "exited"
    /\ nSpawned = 1
    /\ ~connected
    /\ nAttempts = MAX_ATTEMPTS
    /\ exitCode = 1

\* C7: whenever at least one enumerated page is a top-level browsing context,
\* the page activePage returned is the last top-level page in enumeration
\* order: it is top-level and no page enumerated after it is.
C7_PrefersTopLevel ==
    ( /\ tool \in WithBrowserTools
      /\ page # NoPage
      /\ \E k \in 1..Len(pages) : pages[k] \in tree )
    => \E j \in 1..Len(pages) :
          /\ pages[j] = page
          /\ page \in tree
          /\ \A k \in (j + 1)..Len(pages) : pages[k] \notin tree

\* activePage returned a top-level page although an iframe-backed page was
\* enumerated after it.
C7_Witness ==
    /\ tool \in WithBrowserTools
    /\ page # NoPage
    /\ page \in tree
    /\ Len(pages) >= 2
    /\ pages[Len(pages)] \notin tree
    /\ page # pages[Len(pages)]

\* C8 (as claimed): when a tool that works on the current tab has ended with a
\* connected session that enumerated no pages, it has ended with the
\* "No active tab found" line and exit code 1, and without a page operation.
C8_NoActivePage ==
    ( /\ tool \in WithBrowserTools \/ (tool = "firefox-nav" /\ Arg(2) # "--new")
      /\ pc = "exited"
      /\ browser # "none"
      /\ pages = <<>>
      /\ ~thrown )
    => /\ exitCode = 1
       /\ <<"No active tab found">> \in out
       /\ ~opStarted

\* C9: connect() settles within 5 s.  While it is pending it can settle; once
\* settled, no more than 5000 ms have passed since the call; a session means
\* the handshake completed by then, a refused or protocol error is the
\* handshake's own failure, and the timeout error, a different error, means
\* the handshake had not finished before the timer; a handshake that finishes
\* strictly first decides the result.
C9_ConnectSettles ==
    /\ cres = "pending" => ENABLED ConnectSettle
    /\ (Settled /\ hs # NoHandshake) =>
          /\ now - cstart <= CONNECT_TIMEOUT
          /\ cres \in {"session", "refused", "protocol", "timeout"}
          /\ cres = "session" =>
                hs.kind = "ok" /\ now - cstart = hs.delay
          /\ cres \in {"refused", "protocol"} =>
                hs.kind = cres /\ now - cstart = hs.delay
          /\ cres = "timeout" =>
                /\ hs.kind = "hang" \/ hs.delay >= CONNECT_TIMEOUT
                /\ now - cstart = CONNECT_TIMEOUT
          /\ (hs.kind # "hang" /\ hs.delay < CONNECT_TIMEOUT) =>
                cres = HandshakeResult(hs)

\* connect() failed with the timeout error while a handshake that would have
\* completed later was in progress.
C9_Witness ==
    /\ cres = "timeout"
    /\ hs.kind = "ok"
    /\ hs.delay > CONNECT_TIMEOUT
    /\ now - cstart = CONNECT_TIMEOUT

TopLevelLocks == { << <<".parentlock">> >>, << <<"lock">> >> }

\* C10 (as claimed): after syncProfile with a source profile found, no path
\* matching the exclusion list exists in the destination.
C10_NoExcludedPathInDest ==
    (fsPc = "synced" /\ synced) =>
       \A p \in DOMAIN cache : ~Excluded(p)

\* C10 (amended): after syncProfile with a source profile found, every path of
\* the destination that matches the exclusion list was there before the call,
\* with the same content, and is not one of the two lock files at the top of
\* the directory: nothing excluded is copied from the source, so a destination
\* that held no such path before holds none afterwards.
C10_NoExcludedPathCopied ==
    (fsPc = "synced" /\ synced) =>
       \A p \in DOMAIN cache :
          Excluded(p) =>
             /\ p \in DOMAIN cache0
             /\ cache[p] = cache0[p]
             /\ p \notin TopLevelLocks

\* syncProfile copied from a source profile that holds excluded paths into a
\* destination that held only a lock file of them, and none is left.
C10_Witness ==
    /\ fsPc = "synced"
    /\ synced
    /\ << <<"lock">> >> \in DOMAIN src.files
    /\ << <<"cache2">>, <<"entries">> >> \in DOMAIN src.files
    /\ << <<"places", ".sqlite-wal">> >> \in DOMAIN src.files
    /\ << <<"lock">> >> \in DOMAIN cache0
    /\ << <<"cookies", ".sqlite">> >> \in DOMAIN cache
    /\ \A p \in DOMAIN cache : ~Excluded(p)

\* The content of user.js in a directory, empty when the file is absent
\* (existsSync(userJs) ? readFileSync(userJs, "utf-8") : "").
UserJsOf(dir) == IF USER_JS \in DOMAIN dir THEN dir[USER_JS] ELSE <<>>

\* C11: disableSyncPrefs is idempotent: whatever user.js held (or did not
\* exist) before the first call, the second call leaves the directory, and so
\* the file, exactly as the first call left it.
C11_DisableSyncPrefsIdempotent ==
    fsPc = "prefs twice" => cache = cache0

\* The first call appended the overrides to a file that held something else,
\* and the second call has run.
C11_Witness ==
    /\ fsPc = "prefs twice"
    /\ UserJsOf(cache) = <<"// mine">> \o syncPrefs

\* C19: when browser.pages() is non-empty and none of the pages is a top-level
\* browsing context, a withBrowser tool that got through activePage without an
\* exception did not fail with "No active tab found", and the page it operates
\* on is the last element of the unfiltered page list.
C19_FallsBackToLastPage ==
    (/\ tool \in WithBrowserTools
     /\ pages # <<>>
     /\ \A k \in 1..Len(pages) : pages[k] \notin tree)
    => /\ <<"No active tab found">> \notin out
       /\ pc \in {"wb_op", "wb_finally", "exited"} /\ sess["existing"] # "none" /\ ~thrown
             => (pc = "exited" => opStarted) /\ (pc = "wb_op" \/ opStarted => page = AtLast(pages))

\* activePage fell back: several pages, none top-level, and the operation ran
\* on the last one.
C19_Witness ==
    /\ tool \in WithBrowserTools
    /\ Len(pages) >= 2
    /\ tree = {}
    /\ opStarted
    /\ page = pages[Len(pages)]

\* C20 (as claimed): after disableSyncPrefs, user.js holds all three
\* overrides, what it held before is still there, in front, and lines were
\* appended exactly when the three overrides were not all present before.
ContainsOverrides(content) ==
    \A k \in 1..Len(syncPrefs) : \E j \in 1..Len(content) : content[j] = syncPrefs[k]

C20_OverridesPresentAndPreserved ==
    fsPc = "prefs" =>
       LET before == UserJsOf(cache0)
           after == UserJsOf(cache)
       IN /\ ContainsOverrides(after)
          /\ Len(after) >= Len(before)
          /\ SubSeq(after, 1, Len(before)) = before
          /\ (after # before) <=> ~ContainsOverrides(before)

\* Data of the user's real profile, as the sample profiles hold it.
UserData == <<"user data">>

\* C12 (as claimed): when firefox-start --no-profile has spawned the browser,
\* the directory passed via --profile holds no file copied from the user's
\* real profile, whatever the cache directory held before.
C12_NoProfileLaunchIsClean ==
    ( /\ tool = "firefox-start"
      /\ skipProfile
      /\ proc # "none" )
    => \A p \in DOMAIN cache : cache[p] # UserData

\* The deciding events among those received: matching lines, the exit, the timer.
Decisive(events) == SelectSeq(events, LAMBDA e : e # "noise")

\* C16: the outcome of spawnHeadlessFirefox is decided once, by the first
\* deciding event: it is pending exactly while no matching line, exit or timer
\* event has been received, afterwards it is the first such event whatever
\* came later, and the script acts on that outcome (firefoxProc set only after
\* the endpoint announcement, the error of the exit or of the timer otherwise).
C16_DecidedOnceByFirstEvent ==
    tool = "firefox-content" =>
       /\ spawnOutcome \in {"idle", "pending"} <=> Decisive(spawnEvents) = <<>>
       /\ Decisive(spawnEvents) # <<>> => spawnOutcome = Head(Decisive(spawnEvents))
       /\ firefoxProc => spawnOutcome = "listening"
       /\ <<"Uncaught", "Firefox exited with code">> \in out => spawnOutcome = "exited"
       /\ <<"Uncaught", "Timed out waiting for Firefox BiDi endpoint">> \in out
             => spawnOutcome = "timeout"

\* The endpoint was announced, the browser exited afterwards, and the script
\* went on with the announced endpoint.
C16_Witness ==
    /\ tool = "firefox-content"
    /\ spawnEvents = <<"listening", "exited">>
    /\ spawnOutcome = "listening"
    /\ firefoxProc

\* C17 (as claimed): when firefox-content has ended after its headless launch
\* failed with the 15 s timeout, the browser process spawned for that launch
\* does not run any more.
C17_LaunchTimeoutLeavesNoProcess ==
    ( /\ tool = "firefox-content"
      /\ pc = "exited"
      /\ spawnOutcome = "timeout" )
    => proc # "running"

\* firefox-start gave up waiting for the browser it launched.
LaunchFailed ==
    /\ tool = "firefox-start"
    /\ <<"Failed to connect to Firefox">> \in out

\* C18 (as claimed): firefox-start declares the failure about 15 s (30 times
\* 500 ms) after the launch; "about" is read as within twice that time.
C18_AboutFifteenSeconds ==
    LaunchFailed => now - spawnedAt <= 2 * MAX_ATTEMPTS * POLL_INTERVAL

\* C18 (amended): firefox-start declares the failure after exactly 30 failed
\* attempts, each followed by a 500 ms pause and each lasting at most the 5 s
\* of connect()'s timer: no sooner than 15 s and no later than 165 s after
\* the launch.
C18_BoundedByAttempts ==
    LaunchFailed =>
       /\ nAttempts = MAX_ATTEMPTS
       /\ now - spawnedAt >= MAX_ATTEMPTS * POLL_INTERVAL
       /\ now - spawnedAt <= MAX_ATTEMPTS * (CONNECT_TIMEOUT + POLL_INTERVAL)

\* Every attempt ran into connect()'s timer: the failure comes 165 s after the launch.
C18_Witness ==
    /\ LaunchFailed
    /\ now - spawnedAt = MAX_ATTEMPTS * (CONNECT_TIMEOUT + POLL_INTERVAL)

\* The rows of the registry: those of the databases that can be read.
RegistryEntries ==
    IF ~registry.groups THEN {}
    ELSE UNION {{f.rows[k] : k \in 1..Len(f.rows)} :
                  f \in {registry.files[k] : k \in {j \in 1..Len(registry.files) :
                              IsSqlite(registry.files[j]) /\ registry.files[j].readable}}}

\* C13: a lookup whose name matches no registry entry with an existing path
\* returns not-found (no path at all), the launch then fails with
\* ProfileNotFound, the names it reports are exactly the names of the registry
\* entries whose paths exist, and no browser process is launched; a path that
\* is returned is always that of an entry with the name asked for.
C13_NamedProfileNotFound ==
    /\ (lkPc \notin {"idle", "start"}
         /\ ~\E e \in RegistryEntries : e.name = wanted /\ e.path \in onDisk)
        => /\ lkResult = NotFound
           /\ ~lkLaunched
           /\ lkPc # "launched"
           /\ lkPc = "ProfileNotFound" =>
                 {lkAvailable[k] : k \in 1..Len(lkAvailable)}
                    = {e.name : e \in {x \in RegistryEntries : x.path \in onDisk}}
    /\ lkResult.found =>
          \E e \in RegistryEntries :
             e.name = wanted /\ e.path = lkResult.path /\ e.path \in onDisk

\* "Work" is asked for; the registry has it only with a path that does not
\* exist, next to an entry "Personal" whose path exists: ProfileNotFound with
\* "Personal" as the only available name.
C13_Witness ==
    /\ lkPc = "ProfileNotFound"
    /\ wanted = "Work"
    /\ \E e \in RegistryEntries : e.name = "Work"
    /\ lkAvailable = <<"Personal">>
    /\ ~lkLaunched

\* C14: whenever the debounce timer fires while hasFocus is true, that step
\* starts no notifier command and writes nothing (no bell) to the terminal.
C14_NoNotificationWhileFocused ==
    [][(N_TimerFires /\ hasFocus) => UNCHANGED << executed, written, inflight >>]_vars

\* The timer ran its callback for one ended run with the terminal focused,
\* with focus reporting on, and nothing was executed and no bell written.
C14_Witness ==
    /\ lastFire = [ran |-> TRUE, focus |-> TRUE, count |-> 1]
    /\ focusReportingEnabled
    /\ executed = <<>>
    /\ \A k \in 1..Len(written) : written[k] # "BEL"

\* C15 (as claimed): whatever the extension of the accepted input file, the
\* conversion step runs under sandbox-exec with network access denied.
C15_ConversionAlwaysSandboxed ==
    \A k \in 1..Len(sbSteps) :
       sbSteps[k].cmd = "convert.py" =>
          sbSteps[k].wrapper = "sandbox-exec" /\ sbSteps[k].network = "denied"


(***************************************************************************)
(* Provisioning at launch.                                                 *)
(***************************************************************************)

StartFresh == <<"Could not find Firefox profile, starting fresh.">>

\* firefox-start run with profile copying, no source profile to be found
NoSourceLaunch == tool = "firefox-start" /\ ~skipProfile /\ ~src.found

\* C21: when no source profile can be located, syncProfile copies nothing (what
\* the directory holds afterwards it held before, the two lock files removed)
\* and reports synced = false; firefox-start prints the warning, does not
\* abort, and goes on to spawn the browser on the cache profile directory.
C21_NoSourceStartsFresh ==
    NoSourceLaunch =>
       /\ ~synced
       /\ <<"Profile synced.">> \notin out
       /\ pc = "st_prefs" =>
             /\ cache = CleanLocks(cache0)
             /\ StartFresh \in out
             /\ exitCode = Running
       /\ (StartFresh \in out /\ pc \notin {"st_prefs", "st_spawn"}) => nSpawned = 1

C21_Witness ==
    /\ NoSourceLaunch
    /\ cache0 = UsedCache
    /\ StartFresh \in out
    /\ proc = "running"


\* A launch made with profile copying enabled, its source profile found.
CopyingLaunch ==
    /\ \/ tool = "firefox-start" /\ ~skipProfile
       \/ tool = "firefox-content"
    /\ src.found
    /\ nSpawned = 1

\* The snapshot mirrors the source: every source path that is not excluded is
\* in the directory with the source's content (user.js apart, which gets the
\* overrides appended).
Refreshed ==
    \A p \in DOMAIN src.files :
       (~Excluded(p) /\ p # USER_JS) => (p \in DOMAIN cache /\ cache[p] = src.files[p])

\* C22 (as claimed): whenever firefox-start without --no-profile, or
\* firefox-content, has spawned a browser, the Profile Snapshot has been
\* refreshed from the source profile.
C22_RefreshedOnEveryLaunch == CopyingLaunch => Refreshed

\* C22 (amended): firefox-start without --no-profile refreshes the snapshot
\* at every launch; firefox-content refreshes it only when the cache
\* directory was missing or empty, and otherwise launches on the directory
\* exactly as it found it; and no step of any invocation removes the
\* snapshot directory.
C22_RefreshedUnlessCached ==
    /\ [](CopyingLaunch =>
             IF tool = "firefox-content" /\ cache0 # EmptyDir
             THEN cache = cache0
             ELSE Refreshed)
    /\ [][cacheDir => cacheDir']_vars

C22_Witness ==
    /\ tool = "firefox-content"
    /\ src = NewerProfile
    /\ cache0 = UsedCache
    /\ cache = UsedCache
    /\ ~Refreshed
    /\ proc = "running"


\* C23 (as claimed): once firefox-start has spawned the browser, the directory
\* passed via --profile exists and its user.js holds the three suppression
\* overrides, with and without --no-profile, whatever was there before.
C23_ProvisionedBeforeSpawn ==
    (tool = "firefox-start" /\ nSpawned = 1) =>
       /\ cacheDir
       /\ ContainsOverrides(UserJsOf(cache))


(***************************************************************************)
(* The debouncer of notify-on-idle.                                        *)
(***************************************************************************)

\* C27: after any sequence of agent_end, agent_start and timer-fire events at
\* most one debounce timer is armed (the one debounceTimer holds), and
\* pendingCount is greater than 0 exactly when a timer is armed.
C27_OneTimerIffPending ==
    /\ Cardinality(timers) <= 1
    /\ timers = IF debounceTimer = NoTimer THEN {} ELSE {debounceTimer}
    /\ pendingCount > 0 <=> timers # {}

\* A second agent_end has replaced the timer the first one armed.
C27_Witness ==
    /\ pendingCount = 2
    /\ lastEnd > 0
    /\ timers = {lastEnd + DEBOUNCE_MS}
    /\ lastFire.ran


\* C26: agent_start while a notification is pending (timer armed, not yet
\* fired) disarms that timer, so its notification is never sent, and discards
\* the completions counted so far: pendingCount restarts from 0, and a timer
\* that fires later reports only agent_end events that came after that
\* agent_start.
C26_StartCancelsPending ==
    [][ /\ (N_AgentStart /\ debounceTimer # NoTimer) =>
              /\ debounceTimer \notin timers'
              /\ timers' = {}
              /\ pendingCount' = 0
              /\ UNCHANGED << executed, written, inflight >>
        /\ N_TimerFires => lastFire'.count = pendingCount /\ pendingCount <= sinceStart
        /\ N_AgentEnd => pendingCount' <= sinceStart'
      ]_vars

\* A timer fired with a count of one after an agent_start discarded two completions.
C26_Witness ==
    /\ discarded = 2
    /\ sinceStart = 1
    /\ attempts = 1
    /\ lastFire.count = 1
    /\ Len(executed) = 1
    /\ executed[1].message = Message(1)


\* C25 (as claimed): a burst of agent_end events, each less than 2 s after
\* the one before and no agent_start among them, produces at most one run of
\* the timer callback (so at most one notification); the callback runs 2 s
\* after the last event of the burst and its count is the number of
\* agent_end events in the burst.
C25_OneNotificationPerBurst ==
    /\ [](attempts <= 1)
    /\ [][N_TimerFires =>
             /\ clock = lastEnd + DEBOUNCE_MS
             /\ lastFire'.count = burst
             /\ attempts = 0
             /\ timers' = {}
         ]_vars

\* C25 (amended): the agent_end events handled with no agent_start and no
\* run of the timer callback between them produce at most one run of the
\* callback (so at most one notification); it runs no earlier than 2 s after
\* the last of them and counts all of them, also those that came 2 s or more
\* after the one before while the callback was still waiting to run.
C25_OneNotificationPerBatch ==
    /\ [](attempts <= 1)
    /\ [][N_TimerFires =>
             /\ clock >= lastEnd + DEBOUNCE_MS
             /\ lastFire'.count = unreported
             /\ attempts = 0
             /\ timers' = {}
         ]_vars

\* An agent_end, a second one 2 s later and before the callback of the first
\* has run, then one notification for the two, 2 s after the second.
C25_Witness ==
    /\ unreported = 0
    /\ burst = 1
    /\ lastEnd = DEBOUNCE_MS
    /\ clock = lastEnd + DEBOUNCE_MS
    /\ attempts = 1
    /\ lastFire.count = 2
    /\ ~lastFire.focus
    /\ Len(executed) = 1
    /\ executed[1].message = Message(2)


\* C28 (as claimed): hasFocus is true when the most recent focus event
\* received on stdin was focus-in and false when it was focus-out, also
\* when one chunk carried several focus events.
C28_FocusFollowsLastEvent ==
    lastFocusEvent # "none" => (hasFocus <=> lastFocusEvent = "in")


\* One notification goes out with this step: the platform's notifier is
\* started with the message for the count, or, where there is none, the
\* bell is written.
OneSent ==
    IF Notifier(os) # "none"
    THEN /\ executed' = Append(executed, [cmd |-> Notifier(os),
                                          message |-> Message(pendingCount)])
         /\ written' = written
    ELSE /\ written' = Append(written, "BEL")
         /\ executed' = executed

\* C24 (as claimed): when the agent run ended while the terminal was
\* unfocused and the 2 s have passed without agent_start or agent_end, the
\* timer callback sends exactly one notification.
C24_NotifiedIfUnfocusedAtEnd ==
    [][(N_TimerFires /\ ~focusAtEnd) => OneSent]_vars

\* The model's bounds on the log and on the clock are reached.
AtBound == Len(written) >= MaxLog \/ Len(executed) >= MaxLog \/ clock >= MaxClock

\* C24 (amended): whenever an agent run ends, the timer it arms is either
\* cancelled by an agent_start or replaced by a further agent_end that is
\* handled before its callback has run (also one that comes 2 s or more
\* after), or its callback runs, 2 s after the last agent_end; the callback
\* sends exactly one notification if the terminal is taken to be unfocused
\* at that moment, and none if it is taken to be focused, whatever the focus
\* was when the run ended.
C24_NotifiedIfUnfocusedAtFire ==
    /\ [][N_TimerFires =>
             /\ clock = lastEnd + DEBOUNCE_MS
             /\ IF hasFocus THEN UNCHANGED << executed, written, inflight >> ELSE OneSent
         ]_vars
    /\ (debounceTimer # NoTimer) ~> (debounceTimer = NoTimer \/ AtBound)

\* The run ended with the terminal focused, the focus was lost within the 2 s,
\* and the notification went out.
C24_Witness ==
    /\ focusAtEnd
    /\ attempts = 1
    /\ ~lastFire.focus
    /\ lastFire.count = 1
    /\ clock = lastEnd + DEBOUNCE_MS
    /\ Len(executed) = 1


(***************************************************************************)
(* The pencil CLI and its MCPClient.                                       *)
(***************************************************************************)

\* The calls of resolve or reject made for request id, in order.
SettledOf(id) == SelectSeq(mSettled, LAMBDA e : e.id = id)
SentIds == {mSent[k].id : k \in 1..Len(mSent)}
SentAt(id) == (CHOOSE e \in {mSent[k] : k \in 1..Len(mSent)} : e.id = id).at

\* The first response with this id among the lines of the last data event.
ResponsesTo(id, lines) == SelectSeq(lines, LAMBDA line : JSONparse(line).id = id)

\* C29: every request gets a fresh id (the ids sent are 1, 2, ... in order);
\* a request that was sent is either pending, with its 60 s not yet over, or
\* was settled exactly once; a data event settles a pending request exactly
\* when its lines hold a response with the request's id, and then as the
\* first such line says (resolve for a result, reject for an error); lines
\* that are not JSON or carry an id that is not pending change nothing; and a
\* timer settles a request, by rejecting it, only 60 s after it was sent.
C29_SettledOnce ==
    /\ [](/\ \A k \in 1..Len(mSent) : mSent[k].id = k
          /\ requestId = Len(mSent)
          /\ \A id \in SentIds :
                IF id \in pendingRequests
                THEN SettledOf(id) = <<>> /\ mClock <= SentAt(id) + REQUEST_TIMEOUT
                ELSE Len(SettledOf(id)) = 1
          /\ \A k \in 1..Len(mSettled) : mSettled[k].id \in SentIds)
    /\ [][P_Data =>
             \A id \in 1..2 :
                LET answers == ResponsesTo(id, mLines')
                IN IF id \in pendingRequests /\ answers # <<>>
                   THEN /\ id \notin pendingRequests'
                        /\ SettledOf(id)' =
                              << Settlement(id, IF JSONparse(answers[1]).error
                                                THEN "MCP Error"
                                                ELSE IF JSONparse(answers[1]).result
                                                THEN "result" ELSE "no result") >>
                   ELSE /\ (id \in pendingRequests) <=> (id \in pendingRequests')
                        /\ SettledOf(id)' = SettledOf(id)
         ]_vars
    /\ [][P_Timer =>
             \A id \in pendingRequests :
                IF id \in pendingRequests'
                THEN SettledOf(id)' = SettledOf(id)
                ELSE /\ mClock = SentAt(id) + REQUEST_TIMEOUT
                     /\ SettledOf(id)' = << Settlement(id, "Request timeout") >>
         ]_vars

\* initialize was answered with a result, the tool call with an error that
\* arrived in a chunk of its own after the text kept from the chunk before.
C29_Witness ==
    /\ mSettled = << Settlement(1, "result"), Settlement(2, "MCP Error") >>
    /\ mLines = << << [id |-> 2, error |-> TRUE, result |-> FALSE] >> >>
    /\ SentAt(2) = WS_WAIT
    /\ mClock = WS_WAIT
    /\ pendingRequests = {}
    /\ pExit = 1


\* C30 (as claimed): whenever the CLI has exited after it started the MCP
\* server process (after success, a failed tool call, a missing required
\* option or an unknown command), the server has been terminated: it does
\* not run on.
C30_ServerClosedOnEveryExit ==
    (pPc = "exited" /\ mServer \notin {"none", "spawn failed"}) => mServer # "running"

====
